---- MODULE Spec2Model ----
(***************************************************************************)
(* A model of the scripts of the Solid-State-Battery-Safety-Audit          *)
(* repository:                                                             *)
(*   verification_suite.py          (SpecVerify)                           *)
(*   physics_cycle_life.py          (SpecCycle)                            *)
(*   born_solvation_quantum_sieve.py (SpecSieve)                           *)
(*   generate_all_figures.py        (SpecFigures)                          *)
(* Each script is a single-threaded batch process; one action models one   *)
(* step of its main routine.  The variable `script` says which script the  *)
(* process runs; the variables of the other scripts keep their idle value. *)
(*                                                                         *)
(* Real numbers.  TLA+ has integers only, so every float of the source is  *)
(* a fixed-point integer whose unit is stated where it is defined, and a   *)
(* float division is an integer division (\div) in that unit.              *)
(***************************************************************************)
EXTENDS Integers, Sequences, FiniteSets, TLC

VARIABLES
    script,             \* "verification" | "cycle_life" | "sieve" | "figures"
    console,            \* what the process has printed: a set of markers
    written,            \* the output files the process has written
    \* ---- verification_suite.py
    vpc,                \* position in __main__ / run_full_verification
    dendrite_data,      \* <<>> until loaded, then <<record>>
    conductivity_data,  \* <<>> until loaded, then <<record>>
    cycling_data,       \* <<>> until loaded, then <<sequence of points>>
    all_results,        \* the list run_full_verification builds
    returned,           \* <<>> until run_full_verification returns, then <<[results, all_passed]>>
    report,             \* <<>> until verification_report.txt is written, then <<results it lists>>
    exit_status,        \* -1 while the process runs, then the status given to sys.exit
    \* ---- physics_cycle_life.py
    cpc,                \* position in main / run_cycle_life
    execution,          \* 1: an execution of main; 2: a later process, to compare
    caller,             \* "main"; "import": a program that calls run_cycle_life; "direct": one that calls the degradation models
    plan,               \* the run_cycle_life calls the process makes, in order
    n_cycles_arg,       \* the n_cycles the process passes to run_cycle_life
    degradation_calls,  \* the direct calls of the degradation models made so far
    architectures,      \* the Architecture objects of the process (see ProgramArchitectures)
    rng,                \* state of the global np.random generator (see RandomAt)
    run,                \* the locals of the run_cycle_life call in progress
    call_results,       \* the dicts returned by the calls made so far
    call_log,           \* observer: per call its architecture, generator state at entry, first cycle below 80 %
    improvement,        \* improvement factor in thousandths, -1 until computed
    first_run,          \* what execution 1 produced (kept to compare execution 2 with)
    \* ---- born_solvation_quantum_sieve.py
    spc,                \* position in main
    born_call,          \* <<>>, or <<a call of born_solvation_energy and its outcome>>
    enthalpy_call,      \* <<>>, or <<a call of dehydration_enthalpy and its outcome>>
    dielectric_calls,   \* <<>>, or <<two calls of confined_dielectric_constant that differ in the diameter>>
    sieve_results,      \* <<>> until compute_dehydration_profile returned, then <<its dict>>
    selectivity,        \* <<>> until compute_selectivity returned, then <<its dict>>
    profile_json,       \* <<>> until dehydration_enthalpy_profile.json is written, then <<its content>>
    report_txt,         \* the lines of sieve_validation_report.txt, {} until written
    \* ---- generate_all_figures.py
    fpc,                \* position: "import", "main", "generating", "done", "crashed"
    matplotlib_installed, \* whether import matplotlib succeeds
    cycling_csv,        \* validation_data/zero_pressure_cycling.csv (see CsvFile)
    dendrite_json,      \* validation_data/dendrite_suppression_results.json
    figures,            \* the list figures of main
    attempts,           \* observer: per figure, how often its function was called
    plotted,            \* <<>>, or <<the cycles and retention figure 3 plotted>>
    traceback           \* "" or the exception that ended the process

vvars == <<vpc, dendrite_data, conductivity_data, cycling_data, all_results,
           returned, report, exit_status>>

cvars == <<cpc, execution, caller, plan, n_cycles_arg, degradation_calls,
           architectures, rng, run, call_results, call_log, improvement,
           first_run>>

svars == <<spc, born_call, enthalpy_call, dielectric_calls, sieve_results,
           selectivity, profile_json, report_txt>>

fvars == <<fpc, matplotlib_installed, cycling_csv, dendrite_json, figures,
           attempts, plotted, traceback>>

vars == <<script, console, written, vvars, cvars, svars, fvars>>

-----------------------------------------------------------------------------
(* Arithmetic helpers *)

Abs(x) == IF x < 0 THEN -x ELSE x

Min(a, b) == IF a <= b THEN a ELSE b

Max(a, b) == IF a >= b THEN a ELSE b

RECURSIVE IsqrtIter(_, _, _)
IsqrtIter(n, lo, hi) ==
    IF lo >= hi THEN lo
    ELSE LET mid == (lo + hi + 1) \div 2
         IN  IF mid * mid <= n THEN IsqrtIter(n, mid, hi)
                               ELSE IsqrtIter(n, lo, mid - 1)

\* floor(sqrt(n)) for 0 <= n < 2^31 (np.sqrt on a fixed-point value)
Isqrt(n) == IsqrtIter(n, 0, Min(n, 46340))

-----------------------------------------------------------------------------
(* verification_suite.py : constants.  Values of a VerificationResult are in *)
(* thousandths of the result's unit; tolerance_percent is in tenths of a     *)
(* percent.                                                                  *)

FARADAY == 96485                    \* C/mol

LI_MOLAR_VOLUME == 13               \* cm^3/mol  (13.0e-6 m^3/mol)

LLZO_FRACTURE_TOUGHNESS == 1000     \* 1.0 MPa sqrt(m), in thousandths

STRESS_CONCENTRATION_FACTOR == 7000 \* 7.0, in thousandths

PI_MICRO == 3141592                 \* np.pi in millionths

\* ELEMENTARY_CHARGE^2 * 10 * 1e-16 / (BOLTZMANN * 1e-27) = 1.602^2/1.381 * 1e-3,
\* in millionths: the factor of the Nernst-Einstein relation when D is in
\* 1e-16 m^2/s, the volume in nm^3 and sigma in mS/cm.
NERNST_EINSTEIN_MICRO == (1602 * 1602) \div 1381

VerificationResult(name, expected_value, calculated_value, tolerance_percent, passed) ==
    [name |-> name,
     expected_value |-> expected_value,
     calculated_value |-> calculated_value,
     tolerance_percent |-> tolerance_percent,
     passed |-> passed]

\* abs(calculated - expected) / expected < percent / 100, as Python evaluates it
\* for expected # 0: for a negative expected value the quotient is <= 0.
RelErrBelow(calculated, expected, percent) ==
    IF expected > 0 THEN Abs(calculated - expected) * 100 < percent * expected
                    ELSE TRUE

-----------------------------------------------------------------------------
(* The contents the three input files may have (well-formed files: every   *)
(* key present, denominators non-zero, at least one data row).             *)

\* dendrite_suppression_results.json: deflections in thousandths of a nm,
\* penetrations in thousandths of a percent, the claimed factor in thousandths
DendriteFiles ==
    [baseline_deflection : {100000, 102000},
     genesis_deflection : {10000},
     baseline_penetration : {100000},
     genesis_penetration : {15000, 16000},
     claimed_suppression : {10000}]

\* conductivity_results.json: D in 1e-16 m^2/s, T in K, sigma in thousandths of
\* mS/cm, volume in nm^3, r_squared in thousandths
ConductivityFiles ==
    [D : {50, 3500},
     temperature_K : {300},
     claimed_conductivity : {548, 600},
     n_ions : {25},
     volume_nm3 : {1},
     r_squared : {850, 950}]

MaxPoints == 2

CyclePoints == [cycle : {500, 1000}, retention : {94000, 96000, 96050}]

\* zero_pressure_cycling.csv: the rows (cycle, capacity retention in
\* thousandths of a percent), at least one
CyclingFiles == UNION {[1..n -> CyclePoints] : n \in 1..MaxPoints}

-----------------------------------------------------------------------------
(* verification_suite.py : the four verify_* functions *)

\* verify_dendrite_suppression with the first check's threshold written as 0.05
\* while its tolerance_percent stays 1.0
verify_dendrite_suppression_loose(data) ==
    LET calculated_suppression ==
            (data.baseline_deflection * 1000) \div data.genesis_deflection
        claimed_suppression == data.claimed_suppression
        claimed_reduction == 85000
        calculated_reduction == data.baseline_penetration - data.genesis_penetration
        required_W_MPa == (FARADAY * 50) \div LI_MOLAR_VOLUME
    IN  << VerificationResult("Dendrite Suppression Factor",
               claimed_suppression, calculated_suppression, 10,
               RelErrBelow(calculated_suppression, claimed_suppression, 5)),
           VerificationResult("Penetration Reduction",
               claimed_reduction, calculated_reduction, 10,
               RelErrBelow(calculated_reduction, claimed_reduction, 1)),
           VerificationResult("Strain Energy Trap Threshold",
               370000, required_W_MPa, 50,
               RelErrBelow(required_W_MPa, 370000, 5)) >>

verify_dendrite_suppression(data) ==
    LET calculated_suppression ==
            (data.baseline_deflection * 1000) \div data.genesis_deflection
        claimed_suppression == data.claimed_suppression
        claimed_reduction == 85000
        calculated_reduction == data.baseline_penetration - data.genesis_penetration
        overpotential_mV == 50
        required_W_MPa == (FARADAY * overpotential_mV) \div LI_MOLAR_VOLUME
    IN  << VerificationResult("Dendrite Suppression Factor",
               claimed_suppression, calculated_suppression, 10,
               RelErrBelow(calculated_suppression, claimed_suppression, 1)),
           VerificationResult("Penetration Reduction",
               claimed_reduction, calculated_reduction, 10,
               RelErrBelow(calculated_reduction, claimed_reduction, 1)),
           VerificationResult("Strain Energy Trap Threshold",
               370000, required_W_MPa, 50,
               RelErrBelow(required_W_MPa, 370000, 5)) >>

verify_ionic_conductivity(data) ==
    LET D == data.D
        T == data.temperature_K
        claimed_conductivity == data.claimed_conductivity
        \* sigma = n q^2 D / (kB T) * 10, n = n_ions / volume
        sigma_mS_cm == (NERNST_EINSTEIN_MICRO * data.n_ions * D)
                           \div (data.volume_nm3 * T * 1000)
        D_reasonable == 100 < D /\ D < 100000
    IN  << VerificationResult("Ionic Conductivity (Nernst-Einstein)",
               claimed_conductivity, sigma_mS_cm, 50,
               RelErrBelow(sigma_mS_cm, claimed_conductivity, 5)),
           VerificationResult("Diffusion Coefficient (Physical Range)",
               1000, D, 10000, D_reasonable),
           VerificationResult("MSD Linear Fit Quality (R2)",
               900, data.r_squared, 100, data.r_squared > 900) >>

\* cycles.max()
ArrayMax(cycles) ==
    CHOOSE m \in {cycles[i] : i \in DOMAIN cycles} :
        \A i \in DOMAIN cycles : cycles[i] <= m

\* the index of an exact match only, else the last index
ArgminAbsExactOrLast(cycles, target) ==
    IF \E i \in DOMAIN cycles : cycles[i] = target
    THEN CHOOSE i \in DOMAIN cycles :
             cycles[i] = target /\ \A j \in 1..(i - 1) : cycles[j] # target
    ELSE Len(cycles)

\* np.argmin(np.abs(cycles - target)): the first index of a nearest point
ArgminAbs(cycles, target) ==
    CHOOSE i \in DOMAIN cycles :
        /\ \A j \in DOMAIN cycles : Abs(cycles[i] - target) <= Abs(cycles[j] - target)
        /\ \A j \in 1..(i - 1) : Abs(cycles[j] - target) > Abs(cycles[i] - target)

\* verify_cycle_life with a monotonic check that allows no gain at all
verify_cycle_life_strict_monotonic(points) ==
    LET cycles == [i \in DOMAIN points |-> points[i].cycle]
        retention == [i \in DOMAIN points |-> points[i].retention]
        max_cycles == ArrayMax(cycles)
        idx_1000 == ArgminAbs(cycles, 1000)
        retention_at_1000 == retention[idx_1000]
        is_monotonic == \A i \in 1..(Len(retention) - 1) :
                            retention[i + 1] - retention[i] <= 0
        fade_rate == (100000 - retention_at_1000) \div 10
    IN  << VerificationResult("Maximum Cycle Count",
               1000000, max_cycles * 1000, 1, max_cycles >= 1000),
           VerificationResult("Capacity Retention at 1000 Cycles",
               95000, retention_at_1000, 10, retention_at_1000 >= 95000),
           VerificationResult("Monotonic Degradation",
               1000, IF is_monotonic THEN 1000 ELSE 0, 0, is_monotonic),
           VerificationResult("Capacity Fade Rate",
               500, fade_rate, 500, fade_rate < 1000) >>

verify_cycle_life(points) ==
    LET cycles == [i \in DOMAIN points |-> points[i].cycle]
        retention == [i \in DOMAIN points |-> points[i].retention]
        max_cycles == ArrayMax(cycles)
        idx_1000 == ArgminAbs(cycles, 1000)
        retention_at_1000 == retention[idx_1000]
        \* np.all(np.diff(retention) <= 0.1)
        is_monotonic == \A i \in 1..(Len(retention) - 1) :
                            retention[i + 1] - retention[i] <= 100
        fade_rate == (100000 - retention_at_1000) \div 10
    IN  << VerificationResult("Maximum Cycle Count",
               1000000, max_cycles * 1000, 1, max_cycles >= 1000),
           VerificationResult("Capacity Retention at 1000 Cycles",
               95000, retention_at_1000, 10, retention_at_1000 >= 95000),
           VerificationResult("Monotonic Degradation",
               1000, IF is_monotonic THEN 1000 ELSE 0, 0, is_monotonic),
           VerificationResult("Capacity Fade Rate",
               500, fade_rate, 500, fade_rate < 1000) >>

verify_critical_pressure ==
    LET K_IC == LLZO_FRACTURE_TOUGHNESS
        K_t == STRESS_CONCENTRATION_FACTOR
        a_um == 10
        \* sqrt(pi * a) in millionths of sqrt(m)
        sqrt_pi_a == Isqrt(PI_MICRO * a_um)
        sigma_critical == (K_IC * 1000000) \div sqrt_pi_a
        P_critical == (sigma_critical * 1000) \div K_t
    IN  << VerificationResult("Critical Pressure Threshold",
               25000, P_critical, 100, RelErrBelow(P_critical, 25000, 10)),
           VerificationResult("Stress Concentration Factor",
               7000, K_t, 300, 5000 < K_t /\ K_t < 10000) >>

-----------------------------------------------------------------------------
(* verification_suite.py : run_full_verification and __main__ *)

(* physics_cycle_life.py: the Architecture dataclass and its two module-level
   instances.  K_constraint_GPa and stress_concentration_factor are in tenths,
   E_separator_GPa in tenths, porosity and contact_area_fraction in percent,
   strut_thickness_um in tenths, unit_cell_um in units. *)
Architecture(name, K_constraint_GPa, E_separator_GPa, porosity, contact_area_fraction, stress_concentration_factor, strut_thickness_um, unit_cell_um) ==
    [name |-> name,
     K_constraint_GPa |-> K_constraint_GPa,
     E_separator_GPa |-> E_separator_GPa,
     porosity |-> porosity,
     contact_area_fraction |-> contact_area_fraction,
     stress_concentration_factor |-> stress_concentration_factor,
     strut_thickness_um |-> strut_thickness_um,
     unit_cell_um |-> unit_cell_um]

GENESIS ==
    Architecture("Genesis (Gyroid Lattice)", 67, 225, 40, 60, 20, 25, 100)

BASELINE ==
    Architecture("Baseline (Flat LLZO)", 0, 1500, 0, 100, 70, 0, 0)

ArchitectureNames == {"GENESIS", "BASELINE"}

ModuleArchitectures ==
    [a \in ArchitectureNames |-> IF a = "GENESIS" THEN GENESIS ELSE BASELINE]

\* an Architecture an importing program constructs: the fields of BASELINE
\* with stress_concentration_factor = 10.0
FLAT ==
    Architecture("Flat separator", 0, 1500, 0, 100, 100, 0, 0)

\* the Architecture objects of a process: the two of the module and the one
\* an importing program constructs
ProgramArchitectures ==
    [a \in ArchitectureNames \cup {"FLAT"} |->
        IF a = "FLAT" THEN FLAT ELSE ModuleArchitectures[a]]

\* no run_cycle_life call in progress
IdleRun ==
    [architecture |-> "none", n_cycles |-> 0, rng_at_entry |-> 0, next |-> 0,
     history |-> <<>>, dendrite_events |-> 0, capacity |-> 0, sei_nm |-> 0,
     fatigue |-> 0, first_below_80 |-> -1]

NoFirstRun == [results |-> <<>>, call_log |-> <<>>, improvement |-> -1]

(* A process executes one script; the state of the other two stays as below. *)
VerifyIdle ==
    /\ vpc = "idle"
    /\ dendrite_data = <<>>
    /\ conductivity_data = <<>>
    /\ cycling_data = <<>>
    /\ all_results = <<>>
    /\ returned = <<>>
    /\ report = <<>>
    /\ exit_status = -1

CycleIdle ==
    /\ cpc = "idle"
    /\ execution = 1
    /\ caller = "main"
    /\ plan = <<>>
    /\ n_cycles_arg = 0
    /\ degradation_calls = <<>>
    /\ architectures = ProgramArchitectures
    /\ rng = 0
    /\ run = IdleRun
    /\ call_results = <<>>
    /\ call_log = <<>>
    /\ improvement = -1
    /\ first_run = NoFirstRun

SieveIdle ==
    /\ spc = "idle"
    /\ born_call = <<>>
    /\ enthalpy_call = <<>>
    /\ dielectric_calls = <<>>
    /\ sieve_results = <<>>
    /\ selectivity = <<>>
    /\ profile_json = <<>>
    /\ report_txt = {}

FiguresIdle ==
    /\ fpc = "idle"
    /\ matplotlib_installed = TRUE
    /\ cycling_csv = [exists |-> FALSE, rows |-> <<>>]
    /\ dendrite_json = [exists |-> FALSE, valid |-> FALSE, keys |-> {}]
    /\ figures = <<>>
    /\ attempts = [n \in 1..6 |-> 0]
    /\ plotted = <<>>
    /\ traceback = ""

InitVerify ==
    /\ script = "verification"
    /\ written = {}
    /\ CycleIdle
    /\ SieveIdle
    /\ FiguresIdle
    /\ vpc = "load_dendrite"
    /\ dendrite_data = <<>>
    /\ conductivity_data = <<>>
    /\ cycling_data = <<>>
    /\ all_results = <<>>
    /\ returned = <<>>
    /\ console = {}
    /\ report = <<>>
    /\ exit_status = -1

\* the except branch falling through to the summary's passed == total over
\* zero results
LoadFailureReturnVacuous == [results |-> <<>>, all_passed |-> TRUE]

\* what run_full_verification returns from its except branch
LoadFailureReturn == [results |-> <<>>, all_passed |-> FALSE]

\* the except branch of the try around the three loads: the exception is
\* caught, an error line is printed and the function returns to __main__
LoadError ==
    /\ script = "verification"
    /\ vpc \in {"load_dendrite", "load_conductivity", "load_cycling"}
    /\ console' = console \cup {"error_loading_data"}
    /\ returned' = <<LoadFailureReturn>>
    /\ vpc' = "report"
    /\ UNCHANGED <<script, written, cvars, svars, fvars,
                   dendrite_data, conductivity_data, cycling_data,
                   all_results, report, exit_status>>

load_dendrite_data ==
    /\ script = "verification"
    /\ vpc = "load_dendrite"
    /\ \E data \in DendriteFiles : dendrite_data' = <<data>>
    /\ vpc' = "load_conductivity"
    /\ UNCHANGED <<script, written, cvars, svars, fvars,
                   conductivity_data, cycling_data, all_results,
                   returned, console, report, exit_status>>

load_conductivity_data ==
    /\ script = "verification"
    /\ vpc = "load_conductivity"
    /\ \E data \in ConductivityFiles : conductivity_data' = <<data>>
    /\ vpc' = "load_cycling"
    /\ UNCHANGED <<script, written, cvars, svars, fvars,
                   dendrite_data, cycling_data, all_results,
                   returned, console, report, exit_status>>

load_cycling_data ==
    /\ script = "verification"
    /\ vpc = "load_cycling"
    /\ \E points \in CyclingFiles : cycling_data' = <<points>>
    /\ console' = console \cup {"all_data_loaded"}
    /\ vpc' = "verify_dendrite"
    /\ UNCHANGED <<script, written, cvars, svars, fvars,
                   dendrite_data, conductivity_data, all_results,
                   returned, report, exit_status>>

\* all_results = results in place of all_results.extend(results)
ReplaceResults(at, results, next) ==
    /\ script = "verification"
    /\ vpc = at
    /\ all_results' = results
    /\ vpc' = next
    /\ UNCHANGED <<script, written, cvars, svars, fvars,
                   dendrite_data, conductivity_data, cycling_data,
                   returned, console, report, exit_status>>

\* all_results.extend(results) and the move to the next step
ExtendResults(at, results, next) ==
    /\ script = "verification"
    /\ vpc = at
    /\ all_results' = all_results \o results
    /\ vpc' = next
    /\ UNCHANGED <<script, written, cvars, svars, fvars,
                   dendrite_data, conductivity_data, cycling_data,
                   returned, console, report, exit_status>>

VerifyDendrite ==
    ExtendResults("verify_dendrite",
                  IF vpc = "verify_dendrite"
                      THEN verify_dendrite_suppression(dendrite_data[1]) ELSE <<>>,
                  "verify_conductivity")

VerifyConductivity ==
    ExtendResults("verify_conductivity",
                  IF vpc = "verify_conductivity"
                      THEN verify_ionic_conductivity(conductivity_data[1]) ELSE <<>>,
                  "verify_cycle_life")

VerifyCycleLife ==
    ExtendResults("verify_cycle_life",
                  IF vpc = "verify_cycle_life"
                      THEN verify_cycle_life(cycling_data[1]) ELSE <<>>,
                  "verify_pressure")

VerifyPressure ==
    ExtendResults("verify_pressure", verify_critical_pressure, "summary")

\* sum(1 for r in results if r.passed)
CountPassed(results) == Cardinality({i \in DOMAIN results : results[i].passed})

\* the summary: passed == total decides all_passed, and the function returns
Summary ==
    /\ script = "verification"
    /\ vpc = "summary"
    /\ LET passed == CountPassed(all_results)
           total == Len(all_results)
           all_passed == (passed = total)
       IN  /\ console' = console \cup {"summary"} \cup
                  (IF all_passed THEN {"all_claims_verified"} ELSE {"some_checks_failed"})
           /\ returned' = <<[results |-> all_results, all_passed |-> all_passed]>>
    /\ vpc' = "report"
    /\ UNCHANGED <<script, written, cvars, svars, fvars,
                   dendrite_data, conductivity_data, cycling_data,
                   all_results, report, exit_status>>

\* a report step that writes nothing when there are no results
generate_verification_report_unless_empty ==
    /\ script = "verification"
    /\ vpc = "report"
    /\ report' = IF returned[1].results = <<>> THEN report ELSE <<returned[1].results>>
    /\ console' = console \cup {"report_saved"}
    /\ vpc' = "exit"
    /\ UNCHANGED <<script, written, cvars, svars, fvars,
                   dendrite_data, conductivity_data, cycling_data,
                   all_results, returned, exit_status>>

\* __main__: os.makedirs and generate_verification_report(results, report_path)
generate_verification_report ==
    /\ script = "verification"
    /\ vpc = "report"
    /\ report' = <<returned[1].results>>
    /\ console' = console \cup {"report_saved"}
    /\ vpc' = "exit"
    /\ UNCHANGED <<script, written, cvars, svars, fvars,
                   dendrite_data, conductivity_data, cycling_data,
                   all_results, returned, exit_status>>

\* __main__: sys.exit(0 if all_passed else 1)
Exit ==
    /\ script = "verification"
    /\ vpc = "exit"
    /\ exit_status' = (IF returned[1].all_passed THEN 0 ELSE 1)
    /\ vpc' = "exited"
    /\ UNCHANGED <<script, written, cvars, svars, fvars,
                   dendrite_data, conductivity_data, cycling_data,
                   all_results, returned, console, report>>

NextVerify ==
    \/ load_dendrite_data
    \/ load_conductivity_data
    \/ load_cycling_data
    \/ LoadError
    \/ VerifyDendrite
    \/ VerifyConductivity
    \/ VerifyCycleLife
    \/ VerifyPressure
    \/ Summary
    \/ generate_verification_report
    \/ Exit

SpecVerify == InitVerify /\ [][NextVerify]_vars

-----------------------------------------------------------------------------
(* Claims about verification_suite.py *)

Loaded == dendrite_data # <<>> /\ conductivity_data # <<>> /\ cycling_data # <<>>

LoadFailed == "error_loading_data" \in console

AllPassed(results) == \A i \in DOMAIN results : results[i].passed

\* C1: the exit status is 0 exactly when the data was loaded and every
\* VerificationResult produced has passed = TRUE, and 1 in every other case; a
\* load failure gives no results, all_passed = FALSE and status 1.
C1_ExitStatusContract ==
    vpc = "exited" =>
        /\ exit_status \in {0, 1}
        /\ exit_status = 0 <=> (Loaded /\ AllPassed(all_results))
        /\ LoadFailed => /\ all_results = <<>>
                         /\ returned[1].all_passed = FALSE
                         /\ exit_status = 1

\* C1 witness: a run whose load failed has exited, with status 1 and no result
C1_Witness ==
    /\ vpc = "exited"
    /\ LoadFailed
    /\ all_results = <<>>
    /\ exit_status = 1

\* |calculated - expected| <= (tolerance_percent / 100) * |expected|
WithinTolerance(r) ==
    Abs(r.calculated_value - r.expected_value) * 1000
        <= r.tolerance_percent * Abs(r.expected_value)

\* |calculated - expected| / expected < tolerance_percent / 100
StrictlyWithinTolerance(r) ==
    Abs(r.calculated_value - r.expected_value) * 1000
        < r.tolerance_percent * r.expected_value

\* the results whose passed flag is a relative error against a threshold
RelativeErrorChecks ==
    {"Dendrite Suppression Factor", "Penetration Reduction",
     "Strain Energy Trap Threshold", "Ionic Conductivity (Nernst-Einstein)",
     "Critical Pressure Threshold"}

\* C2 as stated: every result passes exactly when its calculated value is
\* within its stated tolerance of the expected value.
C2_PassedIffWithinTolerance ==
    \A i \in DOMAIN all_results :
        all_results[i].passed <=> WithinTolerance(all_results[i])

\* C2 amended: for the five relative-error results (expected value > 0), passed
\* holds exactly when |calculated - expected| / expected is strictly below the
\* stated tolerance.
C2_RelativeChecksMatchTolerance ==
    \A i \in DOMAIN all_results :
        all_results[i].name \in RelativeErrorChecks =>
            (all_results[i].passed <=> StrictlyWithinTolerance(all_results[i]))

\* C2 witness: the run is over, one relative-error check failed and another passed
C2_Witness ==
    /\ vpc = "exited"
    /\ \E i, j \in DOMAIN all_results :
           /\ all_results[i].name = "Dendrite Suppression Factor"
           /\ ~all_results[i].passed
           /\ all_results[j].name = "Ionic Conductivity (Nernst-Einstein)"
           /\ all_results[j].passed

\* C3 as stated: after a failed load nothing more runs: no check, no summary,
\* no report, no regular exit.
C3_LoadFailureAborts ==
    LoadFailed =>
        /\ all_results = <<>>
        /\ "summary" \notin console
        /\ report = <<>>
        /\ exit_status = -1

\* C3 amended: a failed load is caught inside run_full_verification, which
\* returns ([], False): no check and no summary runs, but __main__ goes on,
\* writes the report (listing zero checks) and exits with status 1.
C3_LoadFailureCaught ==
    LoadFailed =>
        /\ all_results = <<>>
        /\ "summary" \notin console
        /\ ~Loaded
        /\ returned = <<LoadFailureReturn>>
        /\ vpc \in {"report", "exit", "exited"}
        /\ vpc \in {"exit", "exited"} => report = << <<>> >>
        /\ vpc = "exited" => exit_status = 1

\* C3 witness: after a failed load the empty report is written and the
\* process has exited with status 1
C3_Witness ==
    /\ LoadFailed
    /\ vpc = "exited"
    /\ report = << <<>> >>
    /\ exit_status = 1

ExpectedNames ==
    << "Dendrite Suppression Factor", "Penetration Reduction",
       "Strain Energy Trap Threshold",
       "Ionic Conductivity (Nernst-Einstein)",
       "Diffusion Coefficient (Physical Range)", "MSD Linear Fit Quality (R2)",
       "Maximum Cycle Count", "Capacity Retention at 1000 Cycles",
       "Monotonic Degradation", "Capacity Fade Rate",
       "Critical Pressure Threshold", "Stress Concentration Factor" >>

IsPrefix(s, t) == Len(s) <= Len(t) /\ SubSeq(t, 1, Len(s)) = s

\* the results come in the fixed order 3 + 3 + 4 + 2, twelve once the checks
\* are over, and the report lists them as they are
ResultsInOrder ==
    /\ Len(all_results) \in {0, 3, 6, 10, 12}
    /\ [i \in DOMAIN all_results |-> all_results[i].name]
           = SubSeq(ExpectedNames, 1, Len(all_results))
    /\ (Loaded /\ vpc \in {"summary", "report", "exit", "exited"})
           => Len(all_results) = 12
    /\ (Loaded /\ report # <<>>) => report[1] = all_results

\* a step only appends to all_results, and appends nothing once the checks are over
ResultsKept ==
    /\ IsPrefix(all_results, all_results')
    /\ (vpc \in {"summary", "report", "exit", "exited"}) => (all_results' = all_results)

\* C9: a result appended to all_results is never changed, removed or
\* reordered: all_results only grows, in the order dendrite, conductivity,
\* cycle-life, critical-pressure checks (12 results on a successful load),
\* and writing the report leaves it as it is.
C9_ResultsAppendOnly ==
    /\ []ResultsInOrder
    /\ [][ResultsKept]_vars

\* C9 witness: a successful run has written its report of twelve results
C9_Witness ==
    /\ vpc = "exited"
    /\ Len(all_results) = 12
    /\ report = <<all_results>>


\* the cycle-life results of a run that got that far, with the data they read
CycleLifeResult(name) ==
    {r \in {all_results[i] : i \in DOMAIN all_results} : r.name = name}

Retention == [i \in DOMAIN cycling_data[1] |-> cycling_data[1][i].retention]

Cycles == [i \in DOMAIN cycling_data[1] |-> cycling_data[1][i].cycle]

(* C16, as stated: the Monotonic Degradation check passes exactly when no two
   consecutive data points show a capacity gain
   (retention[i+1] <= retention[i] for all i). *)
C16_MonotonicIffNoGain ==
    \A r \in CycleLifeResult("Monotonic Degradation") :
        r.passed <=>
            \A i \in 1..(Len(Retention) - 1) : Retention[i + 1] <= Retention[i]

(* C16, amended: the check passes exactly when no consecutive pair gains more
   than 0.1 percentage points (retention[i+1] - retention[i] <= 0.1 for all
   i); gains up to 0.1 are let through as small fluctuations. *)
C16_MonotonicIffNoGainAboveTenth ==
    \A r \in CycleLifeResult("Monotonic Degradation") :
        /\ r.passed <=>
               \A i \in 1..(Len(Retention) - 1) :
                   Retention[i + 1] - Retention[i] <= 100
        /\ r.calculated_value = IF r.passed THEN 1000 ELSE 0

\* a series with a gain of 0.05 has passed the check
C16_Witness ==
    /\ vpc = "exited"
    /\ cycling_data # <<>>
    /\ Len(cycling_data[1]) = 2
    /\ Retention[2] - Retention[1] = 50
    /\ \E r \in CycleLifeResult("Monotonic Degradation") : r.passed

-----------------------------------------------------------------------------
(* physics_cycle_life.py : the degradation models.  Units: stresses in     *)
(* tenths of a MPa, the dendrite barrier in thousandths of a MPa, SEI       *)
(* thickness in units of 5e-5 nm, damage in millionths, the capacity of    *)
(* the loop in units of 1e-8 and a capacity rounded to 6 decimals in        *)
(* millionths, a thickness rounded to 4 decimals in units of 1e-4 nm,       *)
(* probabilities and random draws in units of 1e-7.                        *)

K_B_EV == 8617              \* 8.617e-5 eV/K, in units of 1e-8 eV/K

T_CENTI_K == 29815          \* T_celsius + 273.15 at the default 25.0, in hundredths of a K

N_CYCLES == 2000            \* n_cycles of the calls main makes (and the default)

RECORD_EVERY == 50          \* a history entry every 50 cycles

\* Architecture.cycling_stress_amplitude_MPa: sigma_yield_Li (2.0) * K_t
cycling_stress_amplitude_MPa(self) ==
    2 * self.stress_concentration_factor

\* Architecture.dendrite_barrier_MPa: 0.5 * K * 1000 * 0.05^2
dendrite_barrier_MPa(self) ==
    self.K_constraint_GPa * 125

\* 1000 * sqrt(y + f / 6875) for an integer y and 0 <= f < 6875: the integer
\* root s of y and the first-order term of the remainder ((y - s^2 + f / 6875)
\* / 2s); what is left out is below 500 / s
SqrtThousandths(y, f) ==
    LET s == Isqrt(y)
    IN  IF s = 0 THEN 0
        ELSE 1000 * s + (500 * (y - s * s) + (500 * f) \div 6875) \div s

\* round(x, ndigits) of Python on a value x in units of which `unit` make the
\* last kept decimal: to the nearest, a tie to the even neighbour
Round(x, unit) ==
    LET q == x \div unit
        r == x % unit
    IN  IF 2 * r > unit \/ (2 * r = unit /\ q % 2 = 1) THEN q + 1 ELSE q

\* stress_factor = 1 + (sigma / 5)^1.5, in millionths: (sigma / 5)^3 in
\* millionths is sigma^3 * 8 for sigma in tenths of a MPa.
\* L_nm = sqrt(2 * 8e-22 * stress_factor * (7200 / 0.33) * (cycle_num + 1)) * 1e9
\* in units of 5e-5 nm is sqrt(stress_factor * (cycle_num + 1) * 96 / 6875)
\* * 1000 for stress_factor in millionths; the product is formed in parts
\* that fit 32 bits.
sei_growth_per_cycle(architecture, cycle_num) ==
    LET sigma == cycling_stress_amplitude_MPa(architecture)
        stress_factor == 1000000 + SqrtThousandths(sigma * sigma * sigma * 8, 0)
        q == stress_factor \div 6875
        r == stress_factor % 6875
        q2 == (r * (cycle_num + 1)) \div 6875
        r2 == (r * (cycle_num + 1)) % 6875
        whole == q * (cycle_num + 1) * 96 + q2 * 96 + (r2 * 96) \div 6875
    IN  SqrtThousandths(whole, (r2 * 96) % 6875)

RECURSIVE FixPow(_, _)
\* (x / 10000)^k in ten-thousandths
FixPow(x, k) ==
    IF k = 0 THEN 10000 ELSE (FixPow(x, k - 1) * x) \div 10000

A0 == 50000                 \* a0 = 5e-6 m, in millionths of a_critical

A_CRITICAL == 1000000       \* a_critical = 100e-6 m, in millionths of itself

\* fatigue_damage_per_cycle: da_dN * (cycle_num + 1), in millionths of a_critical
CrackGrowth(architecture, cycle_num) ==
    LET delta_sigma == cycling_stress_amplitude_MPa(architecture) * 8
        delta_sigma_local ==
            (delta_sigma * architecture.stress_concentration_factor) \div 10
        \* MPa sqrt(m) in ten-thousandths; K_IC = 1.0 is 10000
        delta_K == (delta_sigma_local * Isqrt(PI_MICRO * 5)) \div 10000
    IN  IF delta_K > 0 /\ delta_K < 10000
        THEN (FixPow(delta_K, 15) * (cycle_num + 1)) \div 1000000
        ELSE IF delta_K >= 10000
             THEN A_CRITICAL   \* 1e-3 m per cycle: beyond a_critical at once
             ELSE 0

\* fatigue_damage_per_cycle: a_cumulative = a0 + da_dN * (cycle_num + 1)
a_cumulative(architecture, cycle_num) ==
    A0 + CrackGrowth(architecture, cycle_num)

fatigue_damage_per_cycle(architecture, cycle_num) ==
    Min(a_cumulative(architecture, cycle_num), A_CRITICAL)

RECURSIVE ExpNegIter(_, _, _, _, _)
ExpNegIter(x, term, k, sign, total) ==
    IF term <= 0 THEN total
    ELSE ExpNegIter(x, (term * x) \div ((k + 1) * 100000), k + 1, -sign,
                    total + sign * term)

\* np.exp(-x) for x >= 0, x and the result in hundred-thousandths
ExpNeg(x) == ExpNegIter(x, x, 1, -1, 100000)

\* dendrite_nucleation_probability: W_barrier * 1e6 * Omega / 6.022e23 / 1.602e-19
\* (6.022e23 * 1.602e-19 = 96472), in micro-eV
W_per_atom_eV(architecture) ==
    (dendrite_barrier_MPa(architecture) * 13000) \div 96472

\* dendrite_nucleation_probability: K_B_EV * T, in micro-eV
ThermalEnergy == (K_B_EV * T_CENTI_K) \div 10000

\* dendrite_nucleation_probability: P0 = 0.001 * (1.0 / 0.33)
BaseProbability == 10000000 \div 330

dendrite_nucleation_probability(architecture) ==
    LET P0 == BaseProbability
        kT == ThermalEnergy
        suppression ==
            IF W_per_atom_eV(architecture) > 0
            THEN ExpNeg((W_per_atom_eV(architecture) * 100000) \div kT)
            ELSE 100000
    IN  (P0 * (suppression \div 10)) \div 10000

(* The global generator of numpy.  np.random.seed(42) puts it at the start *)
(* of one fixed stream, and every np.random.random() returns the next       *)
(* value of that stream; the state of the generator is the position in the  *)
(* stream.  SmallDraws lists the draws of that stream, among its first      *)
(* 12000, that are below 0.0035, as <<position, floor(draw * 1e7)>>; every  *)
(* other one of them is above 0.00365, which is above any nucleation        *)
(* probability the models give, and is represented by LargeDraw.            *)
SmallDraws ==
    { <<1921, 32182>>, <<2327, 15651>>, <<2604, 1346>>, <<2714, 13536>>,
      <<2902, 116>>, <<2911, 14738>>, <<3217, 19921>>, <<3626, 6533>>,
      <<4129, 11120>>, <<4151, 307>>, <<4725, 2270>>, <<4776, 5979>>,
      <<4978, 9434>>, <<6754, 14283>>, <<7007, 2410>>, <<7263, 4015>>,
      <<7582, 12844>>, <<7732, 7895>>, <<7795, 7168>>, <<7914, 23474>>,
      <<8125, 2429>>, <<8480, 30208>>, <<8506, 4102>>, <<9187, 528>>,
      <<9438, 9058>>, <<9706, 26321>>, <<9907, 2408>>, <<9933, 31216>>,
      <<10047, 9430>>, <<10364, 21409>>, <<10666, 33878>>, <<11031, 24545>>,
      <<11883, 1577>> }

LargeDraw == 36563

RandomAt(position) ==
    IF \E d \in SmallDraws : d[1] = position
    THEN (CHOOSE d \in SmallDraws : d[1] = position)[2]
    ELSE LargeDraw

-----------------------------------------------------------------------------
(* physics_cycle_life.py : run_cycle_life and main *)

MaxCalls == 2

RECURSIVE SeqsUpTo(_, _)
SeqsUpTo(S, n) ==
    IF n = 0 THEN {<<>>}
    ELSE LET shorter == SeqsUpTo(S, n - 1)
         IN  shorter \cup {Append(q, x) : q \in shorter, x \in S}

\* the calls main makes
MainPlan == <<"GENESIS", "BASELINE">>

\* the calls another program that imports the module may make
Plans == (SeqsUpTo(ArchitectureNames, MaxCalls) \ {<<>>}) \cup {<<"FLAT">>}

\* the n_cycles an importing program may pass
CycleCounts == {1, N_CYCLES, 2500}

\* the states the generator may be in when a process starts main or makes its
\* first call: positions of the stream (a program may seed and draw before)
GeneratorStates == {0, N_CYCLES}

InitCycle ==
    /\ script = "cycle_life"
    /\ console = {}
    /\ written = {}
    /\ VerifyIdle
    /\ SieveIdle
    /\ FiguresIdle
    /\ cpc = "seed"
    /\ execution = 1
    /\ caller = "main"
    /\ plan = MainPlan
    /\ n_cycles_arg = N_CYCLES
    /\ degradation_calls = <<>>
    /\ architectures = ProgramArchitectures
    /\ rng \in GeneratorStates
    /\ run = IdleRun
    /\ call_results = <<>>
    /\ call_log = <<>>
    /\ improvement = -1
    /\ first_run = NoFirstRun

\* main: np.random.seed(42)
SeedKeepingState(state) == state

Seed(state) == 0

SeedGenerator ==
    /\ script = "cycle_life"
    /\ cpc = "seed"
    /\ rng' = Seed(rng)
    /\ cpc' = "call"
    /\ UNCHANGED <<script, console, written, vvars, svars, fvars, execution, caller, plan,
                   n_cycles_arg, degradation_calls,
                   architectures, run, call_results, call_log, improvement,
                   first_run>>

\* run_cycle_life, up to the loop: history = [], dendrite_events = 0, capacity = 1.0
EntryLocalsKeepingHistory(architecture, n_cycles, state, previous) ==
    [architecture |-> architecture, n_cycles |-> n_cycles,
     rng_at_entry |-> state, next |-> 0,
     history |-> IF previous = <<>> THEN <<>> ELSE previous[Len(previous)].history,
     dendrite_events |-> 0, capacity |-> 100000000, sei_nm |-> 0, fatigue |-> 0,
     first_below_80 |-> -1]

EntryLocals(architecture, n_cycles, state, previous) ==
    [architecture |-> architecture, n_cycles |-> n_cycles,
     rng_at_entry |-> state, next |-> 0,
     history |-> <<>>,
     dendrite_events |-> 0, capacity |-> 100000000, sei_nm |-> 0, fatigue |-> 0,
     first_below_80 |-> -1]

StartCall ==
    /\ script = "cycle_life"
    /\ cpc = "call"
    /\ Len(call_results) < Len(plan)
    /\ run' = EntryLocals(plan[Len(call_results) + 1], n_cycles_arg, rng,
                        call_results)
    /\ cpc' = "loop"
    /\ UNCHANGED <<script, console, written, vvars, svars, fvars, execution, caller, plan,
                   n_cycles_arg, degradation_calls,
                   architectures, rng, call_results, call_log, improvement,
                   first_run>>

\* what an iteration of the loop leaves in the Architecture object
ArchitectureAfterCycleScaled(architecture, n) ==
    [architecture EXCEPT !.K_constraint_GPa = @ + 1]

ArchitectureAfterCycle(architecture, n) == architecture

\* an end-of-life check on the capacity the history records
EndOfLifeOfRecorded(capacity) == Round(capacity, 100) < 700000

\* the end-of-life check of the loop: if capacity < 0.70: ... break
EndOfLife(capacity) == capacity < 70000000

\* one iteration of the loop of run_cycle_life
CycleStep ==
    /\ script = "cycle_life"
    /\ cpc = "loop"
    /\ LET architecture == architectures[run.architecture]
           n == run.next
           sei_nm == sei_growth_per_cycle(architecture, n)
           \* 0.0002 * sei_nm: 5e-5 nm of SEI are 1e-8 of capacity
           cap_loss_sei == sei_nm
           fatigue == fatigue_damage_per_cycle(architecture, n)
           cap_loss_fatigue == 30 * fatigue
           p_dendrite == dendrite_nucleation_probability(architecture)
           dendrite_events ==
               IF RandomAt(rng) < p_dendrite
               THEN run.dendrite_events + 1 ELSE run.dendrite_events
           cap_loss_dendrite == 2000000 * dendrite_events
           capacity ==
               Max(0, 100000000 - cap_loss_sei - cap_loss_fatigue
                            - cap_loss_dendrite)
           history ==
               IF n % RECORD_EVERY = 0
               THEN Append(run.history,
                           [cycle |-> n,
                            capacity_retention |-> Round(capacity, 100),
                            sei_thickness_nm |-> Round(sei_nm, 2),
                            fatigue_damage |-> fatigue,
                            dendrite_events |-> dendrite_events])
               ELSE run.history
       IN  /\ rng' = rng + 1
           /\ run' = [run EXCEPT
                        !.next = n + 1,
                        !.history = history,
                        !.dendrite_events = dendrite_events,
                        !.capacity = capacity,
                        !.sei_nm = sei_nm,
                        !.fatigue = fatigue,
                        !.first_below_80 =
                            IF @ = -1 /\ capacity < 80000000 THEN n ELSE @]
           /\ architectures' =
                  [architectures EXCEPT
                     ![run.architecture] = ArchitectureAfterCycle(architecture, n)]
           /\ cpc' = IF EndOfLife(capacity) \/ n + 1 = run.n_cycles
                     THEN "after_loop" ELSE "loop"
    /\ UNCHANGED <<script, console, written, vvars, svars, fvars, execution, caller, plan,
                   n_cycles_arg, degradation_calls,
                   call_results, call_log, improvement, first_run>>

RECURSIVE FirstBelow(_, _, _)
\* for entry in history: if entry["capacity_retention"] < 0.80: ... break
FirstBelow(history, i, otherwise) ==
    IF i > Len(history) THEN otherwise
    ELSE IF history[i].capacity_retention < 800000 THEN history[i].cycle
    ELSE FirstBelow(history, i + 1, otherwise)

\* run_cycle_life, after the loop: cycles_to_80 and the returned dict
FinishRun ==
    /\ script = "cycle_life"
    /\ cpc = "after_loop"
    /\ LET architecture == architectures[run.architecture]
           cycles_to_80 == FirstBelow(run.history, 1, run.n_cycles)
           final ==
               [architecture |-> architecture.name,
                K_constraint_GPa |-> architecture.K_constraint_GPa,
                cycling_stress_MPa |-> cycling_stress_amplitude_MPa(architecture),
                dendrite_barrier_MPa |-> dendrite_barrier_MPa(architecture),
                n_cycles_tested |-> run.next,
                final_capacity |-> Round(run.capacity, 100),
                cycles_to_80_pct |-> cycles_to_80,
                total_dendrites |-> run.dendrite_events,
                final_sei_nm |-> Round(run.sei_nm, 2),
                final_fatigue |-> run.fatigue,
                history |-> run.history]
       IN  /\ call_results' = Append(call_results, final)
           /\ call_log' = Append(call_log,
                                 [architecture |-> run.architecture,
                                  rng_at_entry |-> run.rng_at_entry,
                                  n_cycles |-> run.n_cycles,
                                  first_below_80 |-> run.first_below_80])
    /\ run' = IdleRun
    /\ cpc' = "call"
    /\ UNCHANGED <<script, console, written, vvars, svars, fvars, execution, caller, plan,
                   n_cycles_arg, degradation_calls,
                   architectures, rng, improvement, first_run>>

\* main after its two calls: the comparison table and the improvement factor;
\* an importing program is done after its last call
Compare ==
    /\ script = "cycle_life"
    /\ cpc = "call"
    /\ Len(call_results) = Len(plan)
    /\ IF caller = "main"
       THEN /\ improvement' =
                   (call_results[1].cycles_to_80_pct * 1000)
                       \div Max(call_results[2].cycles_to_80_pct, 1)
            /\ cpc' = "save_results"
       ELSE /\ improvement' = improvement
            /\ cpc' = "done"
    /\ UNCHANGED <<script, console, written, vvars, svars, fvars, execution, caller, plan,
                   n_cycles_arg, degradation_calls,
                   architectures, rng, run, call_results, call_log, first_run>>


\* main: json.dump of both call_results and the improvement factor
SaveResults ==
    /\ script = "cycle_life"
    /\ cpc = "save_results"
    /\ written' = written \cup {"cycle_life_results.json"}
    /\ cpc' = "save_csv"
    /\ UNCHANGED <<script, console, vvars, svars, fvars, execution, caller, plan,
                   n_cycles_arg, degradation_calls,
                   architectures, rng, run, call_results, call_log, improvement,
                   first_run>>

generate_cycle_life_csv ==
    /\ script = "cycle_life"
    /\ cpc = "save_csv"
    /\ written' = written \cup {"genesis_cycle_life_physics.csv"}
    /\ cpc' = "plot"
    /\ UNCHANGED <<script, console, vvars, svars, fvars, execution, caller, plan,
                   n_cycles_arg, degradation_calls,
                   architectures, rng, run, call_results, call_log, improvement,
                   first_run>>

\* where main goes when `import matplotlib.pyplot` raises ImportError
AfterImportErrorUncaught == "crashed"

AfterImportError == "done"

\* main: the try block around the plot
PlotCycleLife ==
    /\ script = "cycle_life"
    /\ cpc = "plot"
    /\ \E matplotlib_available \in BOOLEAN :
          IF matplotlib_available
          THEN /\ written' = written \cup {"cycle_life_physics.png"}
               /\ console' = console
               /\ cpc' = "done"
          ELSE /\ written' = written
               /\ console' = console \cup {"matplotlib not available"}
               /\ cpc' = AfterImportError
    /\ UNCHANGED <<script, vvars, svars, fvars, execution, caller, plan,
                   n_cycles_arg, degradation_calls,
                   architectures, rng, run, call_results, call_log, improvement,
                   first_run>>

\* a later process: main again, or a program calling run_cycle_life
NewProcess ==
    /\ script = "cycle_life"
    /\ cpc = "done"
    /\ execution = 1
    /\ execution' = 2
    /\ first_run' = [results |-> call_results, call_log |-> call_log,
                     improvement |-> improvement]
    /\ \E c \in {"main", "import", "direct"} :
          /\ caller' = c
          /\ plan' \in CASE c = "main" -> {MainPlan}
                         [] c = "import" -> Plans
                         [] c = "direct" -> {<<>>}
          /\ n_cycles_arg' \in IF c = "import" THEN CycleCounts ELSE {N_CYCLES}
          /\ cpc' = CASE c = "main" -> "seed"
                       [] c = "import" -> "call"
                       [] c = "direct" -> "direct"
    /\ degradation_calls' = <<>>
    /\ rng' \in GeneratorStates
    /\ architectures' = ProgramArchitectures
    /\ run' = IdleRun
    /\ call_results' = <<>>
    /\ call_log' = <<>>
    /\ improvement' = -1
    /\ console' = {}
    /\ written' = {}
    /\ UNCHANGED <<script, vvars, svars, fvars>>

MaxDirectCalls == 2

\* the Architecture objects a program may construct: the two of the module,
\* each with the other's K_constraint_GPa, and flat separators with a
\* stress concentration factor of 0, 12.5 and 13.0
DirectArchitectures ==
    {GENESIS, BASELINE,
     [GENESIS EXCEPT !.K_constraint_GPa = BASELINE.K_constraint_GPa],
     [BASELINE EXCEPT !.K_constraint_GPa = GENESIS.K_constraint_GPa],
     [BASELINE EXCEPT !.stress_concentration_factor = 0],
     [BASELINE EXCEPT !.stress_concentration_factor = 125],
     [BASELINE EXCEPT !.stress_concentration_factor = 130]}

DirectCycles == {0, 1, 999}

\* a program calls the two methods and the three degradation models on an
\* architecture, as an iteration of run_cycle_life does
DegradationCall ==
    /\ script = "cycle_life"
    /\ cpc = "direct"
    /\ Len(degradation_calls) < MaxDirectCalls
    /\ \E architecture \in DirectArchitectures, cycle_num \in DirectCycles :
          degradation_calls' =
              Append(degradation_calls,
                     [architecture |-> architecture,
                      cycle_num |-> cycle_num,
                      cycling_stress_MPa |->
                          cycling_stress_amplitude_MPa(architecture),
                      dendrite_barrier_MPa |-> dendrite_barrier_MPa(architecture),
                      sei_nm |-> sei_growth_per_cycle(architecture, cycle_num),
                      a_cumulative |-> a_cumulative(architecture, cycle_num),
                      fatigue |->
                          fatigue_damage_per_cycle(architecture, cycle_num),
                      W_per_atom_eV |-> W_per_atom_eV(architecture),
                      kT |-> ThermalEnergy,
                      p_dendrite |->
                          dendrite_nucleation_probability(architecture)])
    /\ UNCHANGED <<script, console, written, vvars, svars, fvars, cpc, execution,
                   caller, plan, n_cycles_arg, architectures, rng, run,
                   call_results, call_log, improvement, first_run>>

NextCycle ==
    \/ DegradationCall
    \/ SeedGenerator
    \/ StartCall
    \/ CycleStep
    \/ FinishRun
    \/ Compare
    \/ SaveResults
    \/ generate_cycle_life_csv
    \/ PlotCycleLife
    \/ NewProcess

SpecCycle == InitCycle /\ [][NextCycle]_vars


-----------------------------------------------------------------------------
(* Claims about physics_cycle_life.py *)

\* the calls completed so far: those of this process, those of execution 1
Calls ==
    {[result |-> call_results[i], log |-> call_log[i]] : i \in DOMAIN call_results}
    \cup {[result |-> first_run.results[i], log |-> first_run.call_log[i]] :
             i \in DOMAIN first_run.results}

SameArguments(c, d) ==
    /\ c.log.architecture = d.log.architecture
    /\ c.log.n_cycles = d.log.n_cycles

(* C5, as stated: for fixed arguments the result of run_cycle_life does not
   depend on the calls made earlier in the process: any two completed calls
   with the same arguments returned the same result. *)
C5_ResultIndependentOfEarlierCalls ==
    script = "cycle_life" =>
        \A c, d \in Calls : SameArguments(c, d) => c.result = d.result

(* C5, amended: the global random generator is shared across calls.  A call
   leaves the generator advanced by one draw per simulated cycle, the next
   call starts from there, two calls with the same arguments and the same
   generator state at entry return equal results, and a BASELINE run that
   starts after the 2000 draws of an earlier run differs from one that starts
   right after seeding. *)
C5_ResultDependsOnGeneratorOnly ==
    script = "cycle_life" =>
        /\ \A c, d \in Calls :
              SameArguments(c, d) /\ c.log.rng_at_entry = d.log.rng_at_entry
                  => c.result = d.result
        /\ \A i \in DOMAIN call_results :
              i + 1 \in DOMAIN call_results =>
                  call_log[i + 1].rng_at_entry =
                      call_log[i].rng_at_entry + call_results[i].n_cycles_tested
        /\ \A c, d \in Calls :
              /\ c.log.architecture = "BASELINE"
              /\ d.log.architecture = "BASELINE"
              /\ c.log.n_cycles = N_CYCLES
              /\ d.log.n_cycles = N_CYCLES
              /\ c.log.rng_at_entry = 0
              /\ d.log.rng_at_entry = N_CYCLES
              => c.result.total_dendrites # d.result.total_dendrites

\* a program made two BASELINE calls; the second started where main's
\* BASELINE run started and returned what main's returned, the first did not
C5_Witness ==
    /\ script = "cycle_life"
    /\ execution = 2
    /\ caller = "import"
    /\ plan = <<"BASELINE", "BASELINE">>
    /\ Len(call_results) = 2
    /\ call_log[2].rng_at_entry = first_run.call_log[2].rng_at_entry
    /\ call_results[2] = first_run.results[2]
    /\ call_results[1] # call_results[2]

IsPrefixOf(q, r) ==
    /\ Len(q) <= Len(r)
    /\ \A i \in DOMAIN q : q[i] = r[i]

RECURSIVE CyclesSimulated(_)
CyclesSimulated(rs) ==
    IF rs = <<>> THEN 0
    ELSE rs[1].n_cycles_tested + CyclesSimulated(Tail(rs))

(* C6: main seeds the generator before the first draw, each simulated cycle
   consumes exactly one draw, GENESIS first and BASELINE second, and a second
   execution of main returns the results of the first: every history entry,
   final_capacity, cycles_to_80_pct, total_dendrites and the improvement
   factor. *)
C6_MainIsReproducible ==
    script = "cycle_life" /\ caller = "main" /\ cpc # "seed" =>
        /\ rng = CyclesSimulated(call_results) + run.next
        /\ \A i \in DOMAIN call_log : call_log[i].architecture = MainPlan[i]
        /\ execution = 2 =>
              /\ IsPrefixOf(call_results, first_run.results)
              /\ improvement # -1 => improvement = first_run.improvement
              /\ cpc = "done" => call_results = first_run.results

C6_Witness ==
    /\ script = "cycle_life"
    /\ execution = 2
    /\ caller = "main"
    /\ cpc = "done"
    /\ Len(call_results) = 2
    /\ call_results = first_run.results
    /\ call_results[2].total_dendrites > 0
    /\ improvement = first_run.improvement
    /\ improvement > 1000

(* C7, as stated: cycles_to_80_pct is the first simulated cycle at which the
   capacity computed in the loop is below 0.80, and n_cycles only if the
   capacity was never below 0.80 at a simulated cycle. *)
C7_CyclesTo80IsFirstCycleBelow80 ==
    script = "cycle_life" =>
        \A c \in Calls :
            c.result.cycles_to_80_pct =
                IF c.log.first_below_80 = -1 THEN c.log.n_cycles
                ELSE c.log.first_below_80

\* main with seed 42: the BASELINE run first falls below 0.80 at cycle 911,
\* between two history entries, and reports 950
C7_Witness ==
    /\ script = "cycle_life"
    /\ caller = "main"
    /\ cpc = "done"
    /\ call_log[2].architecture = "BASELINE"
    /\ call_log[2].first_below_80 = 911
    /\ call_results[2].cycles_to_80_pct = 950

(* C8: no call changes a field of an Architecture: GENESIS and BASELINE hold
   their constructed values in every state, and what the two derived methods
   returned in a call is what they return on the constructed objects. *)
C8_ArchitectureNeverMutated ==
    script = "cycle_life" =>
        /\ architectures["GENESIS"] = GENESIS
        /\ architectures["BASELINE"] = BASELINE
        /\ \A i \in DOMAIN call_results :
              LET constructed == ProgramArchitectures[call_log[i].architecture]
              IN  /\ call_results[i].cycling_stress_MPa =
                         cycling_stress_amplitude_MPa(constructed)
                  /\ call_results[i].dendrite_barrier_MPa =
                         dendrite_barrier_MPa(constructed)
                  /\ call_results[i].K_constraint_GPa =
                         constructed.K_constraint_GPa

C8_Witness ==
    /\ script = "cycle_life"
    /\ execution = 1
    /\ cpc = "done"
    /\ Len(call_results) = 2
    /\ call_results[1].n_cycles_tested = N_CYCLES
    /\ call_results[2].n_cycles_tested = N_CYCLES
    /\ architectures = ProgramArchitectures

\* what main computes with seed 42
MainOutcome ==
    script = "cycle_life" /\ caller = "main" /\ cpc = "done" =>
        /\ call_results[1].cycles_to_80_pct = 2000
        /\ call_results[1].total_dendrites = 0
        /\ call_results[1].final_capacity \in 915700..915800
        /\ call_results[2].cycles_to_80_pct = 950
        /\ call_results[2].total_dendrites = 7
        /\ call_results[2].final_capacity \in 718900..719100
        /\ call_log[2].first_below_80 = 911
        /\ improvement = 2105

\* the loop of run_cycle_life, in every state: it has made at most n_cycles
\* iterations; it goes on only below n_cycles iterations and with a capacity
\* of at least 0.70 at the latest simulated cycle; it has ended only at the
\* first cycle below 0.70 or after n_cycles iterations
LoopStopsAtEndOfLife ==
    script = "cycle_life" =>
        /\ run.next <= run.n_cycles
        /\ cpc = "loop" =>
              /\ run.next < run.n_cycles
              /\ run.next > 0 => run.capacity >= 70000000
        /\ cpc = "after_loop" =>
              /\ run.next >= 1
              /\ run.capacity < 70000000 \/ run.next = run.n_cycles
        /\ \A c \in Calls :
              /\ c.result.n_cycles_tested >= 1
              /\ c.result.n_cycles_tested <= c.log.n_cycles

\* a step of the loop is one iteration, and the n_cycles_tested returned is
\* the number of iterations made
IterationsCounted ==
    /\ cpc = "loop" /\ run' # run => run'.next = run.next + 1
    /\ Len(call_results') = Len(call_results) + 1 =>
          call_results'[Len(call_results')].n_cycles_tested = run.next

(* C20, as stated: for every n_cycles >= 1 the loop of run_cycle_life ends
   after at most n_cycles iterations and stops early exactly at the first
   cycle whose capacity is below 0.70; n_cycles_tested is the number of
   iterations made, and n_cycles_tested < n_cycles implies
   final_capacity < 0.70. *)
C20_EarlyStopMeansFinalBelow70 ==
    /\ []LoopStopsAtEndOfLife
    /\ [][IterationsCounted]_vars
    /\ [](script = "cycle_life" =>
             \A c \in Calls :
                 c.result.n_cycles_tested < c.log.n_cycles
                 => c.result.final_capacity < 700000)

(* C20, amended: as stated, except that after an early stop it is the
   capacity of the loop that is below 0.70; final_capacity is that capacity
   rounded to 6 decimals and is at most 0.70. *)
C20_EarlyStopMeansCapacityBelow70 ==
    /\ []LoopStopsAtEndOfLife
    /\ [][IterationsCounted]_vars
    /\ [][Len(call_results') = Len(call_results) + 1 /\ run.next < run.n_cycles
            => /\ run.capacity < 70000000
               /\ call_results'[Len(call_results')].final_capacity <= 700000]_vars

\* a program calls run_cycle_life(FLAT, 2000) with the generator 2000 draws
\* into the seed-42 stream: the loop stops at its 1673rd iteration with a
\* capacity of 0.69999984, and final_capacity is 0.7
C20_Witness ==
    /\ script = "cycle_life"
    /\ \E c \in Calls :
          /\ c.log.architecture = "FLAT"
          /\ c.log.n_cycles = N_CYCLES
          /\ c.result.n_cycles_tested = 1673
          /\ c.result.final_capacity = 700000

\* the calls of the degradation models a program made directly
DirectCalls == {degradation_calls[i] : i \in DOMAIN degradation_calls}

\* two architectures that differ in K_constraint_GPa and in nothing else
DifferOnlyInConstraint(a, b) ==
    /\ a.K_constraint_GPa # b.K_constraint_GPa
    /\ [a EXCEPT !.K_constraint_GPa = b.K_constraint_GPa] = b

(* C14: for GENESIS at 25 C the elastic work per atom is far above the thermal
   energy (here: at least ten times K_B_EV * T) and the nucleation probability
   is a negligible fraction of P0 (here: at most a hundredth). *)
C14_GenesisProbabilityNegligible ==
    script = "cycle_life" =>
        \A c \in DirectCalls :
            c.architecture = GENESIS =>
                /\ c.W_per_atom_eV >= 10 * c.kT
                /\ c.p_dendrite * 100 <= BaseProbability

\* the call on GENESIS: 1128 micro-eV against kT = 25691 micro-eV, and a
\* probability of 0.0029 where P0 is 0.00303
C14_Witness ==
    /\ script = "cycle_life"
    /\ \E c \in DirectCalls :
          /\ c.architecture = GENESIS
          /\ c.W_per_atom_eV * 20 < c.kT
          /\ c.p_dendrite * 100 > BaseProbability * 95

(* C15: of two Architectures that differ only in K_constraint_GPa, the one
   with the higher K_constraint_GPa has the strictly lower
   cycling_stress_amplitude_MPa. *)
C15_HigherConstraintLowersStress ==
    script = "cycle_life" =>
        \A c, d \in DirectCalls :
            /\ DifferOnlyInConstraint(c.architecture, d.architecture)
            /\ c.architecture.K_constraint_GPa > d.architecture.K_constraint_GPa
            => c.cycling_stress_MPa < d.cycling_stress_MPa

\* BASELINE and BASELINE with the K_constraint_GPa of GENESIS: 14.0 MPa both
C15_Witness ==
    /\ script = "cycle_life"
    /\ \E c, d \in DirectCalls :
          /\ d.architecture = BASELINE
          /\ DifferOnlyInConstraint(c.architecture, d.architecture)
          /\ c.architecture.K_constraint_GPa > d.architecture.K_constraint_GPa
          /\ c.cycling_stress_MPa = 140
          /\ d.cycling_stress_MPa = 140

(* C18: the value of fatigue_damage_per_cycle is within [0, 1], does not
   decrease as cycle_num grows, is 1.0 exactly when the cumulative crack
   length has reached a_critical, and is 0 whenever no crack growth has
   accumulated (the cumulative crack length is still a0). *)
C18_DamageFromZeroToOne ==
    script = "cycle_life" =>
        /\ \A c \in DirectCalls :
              /\ c.fatigue >= 0 /\ c.fatigue <= 1000000
              /\ c.fatigue = 1000000 <=> c.a_cumulative >= A_CRITICAL
              /\ c.a_cumulative = A0 => c.fatigue = 0
        /\ \A c, d \in DirectCalls :
              c.architecture = d.architecture /\ c.cycle_num <= d.cycle_num
              => c.fatigue <= d.fatigue

\* an architecture whose cracks do not grow (stress concentration factor 0):
\* the damage is a0 / a_critical = 0.05
C18_Witness ==
    /\ script = "cycle_life"
    /\ \E c \in DirectCalls :
          /\ c.architecture.stress_concentration_factor = 0
          /\ c.a_cumulative = A0
          /\ c.fatigue = 50000

\* what holds of fatigue_damage_per_cycle: the value is within
\* [a0 / a_critical, 1], does not decrease as cycle_num grows, and is 1.0
\* exactly when the cumulative crack length has reached a_critical
FatigueDamageRange ==
    script = "cycle_life" =>
        /\ \A c \in DirectCalls :
              /\ c.fatigue >= 50000 /\ c.fatigue <= 1000000
              /\ c.fatigue = 1000000 <=> c.a_cumulative >= A_CRITICAL
        /\ \A c, d \in DirectCalls :
              c.architecture = d.architecture /\ c.cycle_num <= d.cycle_num
              => c.fatigue <= d.fatigue


-----------------------------------------------------------------------------
(* born_solvation_quantum_sieve.py : born_solvation_energy.                 *)
(*                                                                         *)
(* The arguments are Python floats.  epsilon_r is in hundredths.  r_eff_m   *)
(* is [scale, n]: n picometres when scale = "pm", and n * 10^6 times the    *)
(* smallest positive float (2^-1074, about 4.94e-324), a subnormal float,   *)
(* when scale = "subnormal".  The energy is in tenths of a kJ/mol.          *)

N_A_E_CHARGE_2 == 154586        \* N_A * E_CHARGE^2 = 1.54586e-14, in units of 1e-19

EIGHT_PI_EPSILON_0 == 222530    \* 8 * PI * EPSILON_0 = 2.2253e-10, in units of 1e-15

Picometres(n) == [scale |-> "pm", n |-> n]

Subnormal(n) == [scale |-> "subnormal", n |-> n]

\* what a call does: return a float, finite or infinite, or raise
Returned(value) == [raised |-> FALSE, infinite |-> FALSE, value |-> value]

ReturnedInfinite == [raised |-> FALSE, infinite |-> TRUE, value |-> 0]

RaisedZeroDivisionError == [raised |-> TRUE, infinite |-> FALSE, value |-> 0]

(* 8 * PI * EPSILON_0 * r_eff_m, as float multiplication computes it: zero
   tells whether the product is 0.0.  For a subnormal r_eff_m the product is
   that many units of 2^-1074, rounded to the nearest whole number of them;
   for picometres it is in units of 1e-24. *)
BornDenominator(r_eff_m) ==
    IF r_eff_m.scale = "subnormal"
    THEN LET quanta == (r_eff_m.n * (EIGHT_PI_EPSILON_0 \div 10) + 50000000)
                           \div 100000000
         IN  [zero |-> quanta = 0, tiny |-> TRUE, n |-> quanta]
    ELSE LET n == (EIGHT_PI_EPSILON_0 * r_eff_m.n) \div 1000
         IN  [zero |-> n = 0, tiny |-> FALSE, n |-> n]

\* (1.0 - 1.0/epsilon_r) in thousandths, epsilon_r # 0
DielectricFactor(epsilon_r) == 1000 - (100000 \div epsilon_r)

\* a * b / 1000, rounded towards zero
ScaleByThousandths(a, b) ==
    LET p == a * b
    IN  IF p >= 0 THEN p \div 1000 ELSE -((-p) \div 1000)

born_solvation_energy(z, r_eff_m, epsilon_r) ==
    IF r_eff_m.n <= 0 \/ epsilon_r <= 0
    THEN Returned(0)
    ELSE LET numerator == N_A_E_CHARGE_2 * z * z
             denominator == BornDenominator(r_eff_m)
         IN  IF denominator.zero \/ epsilon_r = 0
             THEN RaisedZeroDivisionError
             ELSE IF denominator.tiny
             THEN \* a quotient by a subnormal: beyond the largest float, or 0/x
                  IF numerator = 0 THEN Returned(0) ELSE ReturnedInfinite
             ELSE LET delta_G == -((numerator * 1000) \div denominator.n)
                  IN  Returned(ScaleByThousandths(delta_G,
                                                  DielectricFactor(epsilon_r)))

Charges == -1..2

Radii ==
    {Picometres(n) : n \in {-76, 0, 76, 102}}
    \cup {Subnormal(n) : n \in {1, 2000, 3000}}

Dielectrics == {-100, 0, 50, 100, 3000}

-----------------------------------------------------------------------------
(* born_solvation_quantum_sieve.py : the species, the confined dielectric   *)
(* constant and the dehydration enthalpy.  Radii are in picometres, pore    *)
(* diameters and the two lengths of the sigmoid in units of 1e-4 nm,        *)
(* dielectric constants in hundredths, the argument of the sigmoid and the  *)
(* sigmoid in ten-thousandths, enthalpies in tenths of a kJ/mol.            *)

IonSpecies(name, bare_radius_nm, solvated_radius_nm, charge, coordination_number, hydration_enthalpy_kJ_mol) ==
    [name |-> name,
     bare_radius_nm |-> bare_radius_nm,
     solvated_radius_nm |-> solvated_radius_nm,
     charge |-> charge,
     coordination_number |-> coordination_number,
     hydration_enthalpy_kJ_mol |-> hydration_enthalpy_kJ_mol]

SpeciesKeys == {"Li+", "Na+", "Li_EC4", "Li_H2O4", "dendrite_tip"}

SPECIES ==
    [key \in SpeciesKeys |->
        CASE key = "Li+" -> IonSpecies("Li+ (bare)", 76, 382, 1, 4, 520)
          [] key = "Na+" -> IonSpecies("Na+ (bare)", 102, 358, 1, 6, 405)
          [] key = "Li_EC4" -> IonSpecies("Li+(EC)4 (solvated)", 76, 450, 1, 4, 520)
          [] key = "Li_H2O4" -> IonSpecies("Li+(H2O)4 (hydrated)", 76, 340, 1, 4, 520)
          [] key = "dendrite_tip" -> IonSpecies("Dendrite Tip", 50000, 50000, 0, 0, 0)]

RECURSIVE ExpSeriesIter(_, _, _, _, _)
ExpSeriesIter(x, term, k, sign, total) ==
    IF term <= 0 THEN total
    ELSE ExpSeriesIter(x, (term * x) \div ((k + 1) * 10000), k + 1, -sign,
                       total + sign * term)

\* np.exp(-x) for 0 <= x < 1, x and the result in ten-thousandths
ExpSeries(x) == ExpSeriesIter(x, x, 1, -1, 10000)

\* a * a for a in ten-thousandths
Squared(a) == (a * a) \div 10000

\* np.exp(-x) for 0 <= x <= 50, as (exp(-x / 16))^16; below 1e-4 from x = 12 on
ExpNegWide(x) ==
    IF x >= 120000 THEN 0
    ELSE Squared(Squared(Squared(Squared(ExpSeries(x \div 16)))))

\* the argument clipped to [-60, 60] instead
ClippedArgumentAtSixty(pore_diameter_nm, d_critical_nm, transition_width_nm) ==
    LET distance == pore_diameter_nm - d_critical_nm
    IN  IF distance >= 60 * transition_width_nm THEN 600000
        ELSE IF distance <= -60 * transition_width_nm THEN -600000
        ELSE IF distance >= 0
             THEN (distance * 10000) \div transition_width_nm
             ELSE -(((-distance) * 10000) \div transition_width_nm)

\* x = (pore_diameter_nm - d_critical_nm) / transition_width_nm, then
\* np.clip(x, -50, 50); transition_width_nm > 0.  The quotient is formed only
\* where it is within the clip, which keeps it within 32 bits.
ClippedArgument(pore_diameter_nm, d_critical_nm, transition_width_nm) ==
    LET distance == pore_diameter_nm - d_critical_nm
    IN  IF distance >= 50 * transition_width_nm THEN 500000
        ELSE IF distance <= -50 * transition_width_nm THEN -500000
        ELSE IF distance >= 0
             THEN (distance * 10000) \div transition_width_nm
             ELSE -(((-distance) * 10000) \div transition_width_nm)

\* sigmoid = 1.0 / (1.0 + np.exp(-x)); for x < 0, np.exp(-x) is 1 / exp(-|x|)
Sigmoid(x) ==
    LET t == ExpNegWide(Abs(x))
    IN  IF x >= 0 THEN 100000000 \div (10000 + t)
        ELSE (10000 * t) \div (10000 + t)

confined_dielectric_constant(pore_diameter_nm, epsilon_bulk, epsilon_vacuum, d_critical_nm, transition_width_nm) ==
    LET x == ClippedArgument(pore_diameter_nm, d_critical_nm,
                             transition_width_nm)
        sigmoid == Sigmoid(x)
    IN  epsilon_vacuum + ((epsilon_bulk - epsilon_vacuum) * sigmoid) \div 10000

(* The same function in the arithmetic of Python floats (IEEE 754 binary64,  *)
(* round to nearest, ties to even), where the result is determined bit for  *)
(* bit: where the sigmoid is exactly 1.0 or exactly 0.5.  A natural number  *)
(* is a sequence of bits, least significant first, without leading zeros;   *)
(* a float is [m, e] and stands for m * 2^e with m odd (m = <<>> is 0.0).   *)
(* The values here are between 0.01 and 200, far from overflow, underflow   *)
(* and the subnormal floats.                                                *)

\* the highest set bit of a, 0 when there is none
HighBit(a) ==
    IF \A i \in DOMAIN a : a[i] = 0 THEN 0
    ELSE CHOOSE i \in DOMAIN a :
             a[i] = 1 /\ \A j \in (i + 1)..Len(a) : a[j] = 0

TrimBits(a) == SubSeq(a, 1, HighBit(a))

\* n < 2^31
BitsOfNat(n) == TrimBits([i \in 1..31 |-> (n \div 2^(i - 1)) % 2])

BitAt(a, i) == IF i \in DOMAIN a THEN a[i] ELSE 0

\* the carry into bit i of a + b: some lower bit makes a carry and every bit
\* between passes it on
CarryInto(a, b, i) ==
    IF \E j \in 1..(i - 1) :
          /\ BitAt(a, j) + BitAt(b, j) = 2
          /\ \A k \in (j + 1)..(i - 1) : BitAt(a, k) + BitAt(b, k) >= 1
    THEN 1 ELSE 0

BitsAdd(a, b) ==
    LET n == Max(Len(a), Len(b)) + 1
    IN  TrimBits([i \in 1..n |->
                     (BitAt(a, i) + BitAt(b, i) + CarryInto(a, b, i)) % 2])

\* the borrow into bit i of a - b
BorrowInto(a, b, i) ==
    IF \E j \in 1..(i - 1) :
          /\ BitAt(a, j) < BitAt(b, j)
          /\ \A k \in (j + 1)..(i - 1) : BitAt(a, k) <= BitAt(b, k)
    THEN 1 ELSE 0

\* a - b for a >= b
BitsSub(a, b) ==
    TrimBits([i \in 1..Len(a) |->
                 (BitAt(a, i) - BitAt(b, i) - BorrowInto(a, b, i) + 2) % 2])

BitsLeq(a, b) ==
    \/ Len(a) < Len(b)
    \/ /\ Len(a) = Len(b)
       /\ \/ a = b
          \/ \E i \in DOMAIN a :
                /\ a[i] < b[i]
                /\ \A j \in (i + 1)..Len(a) : a[j] = b[j]

ShiftLeft(a, k) == IF a = <<>> THEN <<>> ELSE [i \in 1..k |-> 0] \o a

\* the number of zero bits below the lowest set bit, a # <<>>
TrailingZeros(a) ==
    (CHOOSE i \in DOMAIN a : a[i] = 1 /\ \A j \in 1..(i - 1) : a[j] = 0) - 1

\* m * 2^e with the low zero bits of m moved into e
Float(m, e) ==
    IF m = <<>> THEN [m |-> <<>>, e |-> 0]
    ELSE LET k == TrailingZeros(m)
         IN  [m |-> SubSeq(m, k + 1, Len(m)), e |-> e + k]

MANTISSA_BITS == 53

\* the float nearest to m * 2^e, ties to the even mantissa
RoundFloat(m, e) ==
    IF Len(m) <= MANTISSA_BITS THEN Float(m, e)
    ELSE LET k == Len(m) - MANTISSA_BITS
             kept == SubSeq(m, k + 1, Len(m))
             half == m[k]
             sticky == \E i \in 1..(k - 1) : m[i] = 1
             up == half = 1 /\ (sticky \/ kept[1] = 1)
         IN  Float(IF up THEN BitsAdd(kept, <<1>>) ELSE kept, e + k)

FloatAdd(a, b) ==
    LET e == Min(a.e, b.e)
    IN  IF a.m = <<>> THEN b
        ELSE IF b.m = <<>> THEN a
        ELSE RoundFloat(BitsAdd(ShiftLeft(a.m, a.e - e), ShiftLeft(b.m, b.e - e)), e)

FloatLeq(a, b) ==
    LET e == Min(a.e, b.e)
    IN  IF a.m = <<>> THEN TRUE
        ELSE IF b.m = <<>> THEN FALSE
        ELSE BitsLeq(ShiftLeft(a.m, a.e - e), ShiftLeft(b.m, b.e - e))

\* a - b for a >= b >= 0
FloatSub(a, b) ==
    LET e == Min(a.e, b.e)
    IN  IF b.m = <<>> THEN a
        ELSE RoundFloat(BitsSub(ShiftLeft(a.m, a.e - e), ShiftLeft(b.m, b.e - e)), e)

\* a * 2^k, a power of two as the factor or the divisor: exact
FloatScale(a, k) == IF a.m = <<>> THEN a ELSE [m |-> a.m, e |-> a.e + k]

FRACTION_BITS == 64

\* 2^i modulo 100, which repeats every 20 from i = 2 on
PowerOfTwoMod100(i) == IF i < 2 THEN 2^i ELSE (2^(2 + ((i - 2) % 20))) % 100

\* binary digit i after the point of r / 100, r < 100: r * 2^(i-1) leaves
\* the remainder rest, and the digit tells whether twice that reaches 100
FractionBit(r, i) ==
    LET rest == (r * PowerOfTwoMod100(i - 1)) % 100
    IN  IF 2 * rest >= 100 THEN 1 ELSE 0

\* the float of a decimal literal: the float nearest to h / 100, h >= 0.
\* The digits after the first FRACTION_BITS are not all zero exactly when
\* the remainder is not zero; one more low bit records that for the rounding.
FloatOfHundredths(h) ==
    LET r == h % 100
        fraction == [i \in 1..FRACTION_BITS |->
                        FractionBit(r, FRACTION_BITS + 1 - i)]
        rest == (r * PowerOfTwoMod100(FRACTION_BITS)) % 100
        sticky == IF rest = 0 THEN 0 ELSE 1
        m == TrimBits(<<sticky>> \o fraction \o BitsOfNat(h \div 100))
    IN  RoundFloat(m, -(FRACTION_BITS + 1))

\* the unit in the last place of a, a # 0.0
Ulp(a) == [m |-> <<1>>, e |-> a.e + Len(a.m) - MANTISSA_BITS]

\* |a - b| is at most one unit in the last place of b
WithinOneUlp(a, b) ==
    IF a = b THEN TRUE
    ELSE IF b.m = <<>> THEN FALSE
    ELSE IF FloatLeq(b, a) THEN FloatLeq(a, FloatAdd(b, Ulp(b)))
    ELSE FloatLeq(FloatSub(b, Ulp(b)), a)

Inexact == [exact |-> FALSE, value |-> Float(<<>>, 0)]

Exact(value) == [exact |-> TRUE, value |-> value]

(* sigmoid = 1.0 / (1.0 + np.exp(-x)) where it is an exact power of two:
   np.exp(-0.0) is 1.0 and 1.0 / 2.0 is 0.5; from x = 37 on np.exp(-x) is
   below 2^-53, 1.0 + np.exp(-x) rounds to 1.0 and 1.0 / 1.0 is 1.0.  The
   value is the exponent of the power of two. *)
SigmoidPowerOfTwo(x) ==
    IF x = 0 THEN Exact(-1)
    ELSE IF x >= 370000 THEN Exact(0)
    ELSE Inexact

\* epsilon_eff = epsilon_vacuum + (epsilon_bulk - epsilon_vacuum) * sigmoid
\* as floats, epsilon_bulk >= epsilon_vacuum >= 0
confined_dielectric_float(pore_diameter_nm, epsilon_bulk, epsilon_vacuum, d_critical_nm, transition_width_nm) ==
    LET x == ClippedArgument(pore_diameter_nm, d_critical_nm,
                             transition_width_nm)
        sigmoid == SigmoidPowerOfTwo(x)
        bulk == FloatOfHundredths(epsilon_bulk)
        vacuum == FloatOfHundredths(epsilon_vacuum)
    IN  IF ~sigmoid.exact THEN Inexact
        ELSE Exact(FloatAdd(vacuum,
                            FloatScale(FloatSub(bulk, vacuum), sigmoid.value)))

\* the defaults of confined_dielectric_constant
EPSILON_VACUUM_DEFAULT == 200

D_CRITICAL_DEFAULT == 7000

TRANSITION_WIDTH_DEFAULT == 1000

\* the steric check is pore_diameter_nm < solvated_diameter_nm * 0.8, and
\* solvated_diameter_nm * 0.8 in units of 1e-4 nm is 16 radii in pm
dehydration_enthalpy(pore_diameter_nm, ion, epsilon_bulk) ==
    LET solvated_diameter_nm_x_08 == 16 * ion.solvated_radius_nm
        r_eff == Picometres(ion.bare_radius_nm)
        G_bulk == born_solvation_energy(ion.charge, r_eff, epsilon_bulk)
        epsilon_pore ==
            confined_dielectric_constant(pore_diameter_nm, epsilon_bulk,
                                         EPSILON_VACUUM_DEFAULT,
                                         D_CRITICAL_DEFAULT,
                                         TRANSITION_WIDTH_DEFAULT)
        G_pore == born_solvation_energy(ion.charge, r_eff, epsilon_pore)
    IN  IF pore_diameter_nm < solvated_diameter_nm_x_08
        THEN ReturnedInfinite
        ELSE IF G_bulk.raised \/ G_pore.raised THEN RaisedZeroDivisionError
        ELSE Returned(G_pore.value - G_bulk.value)

\* an entry of a profile: None (sterically blocked) or round(dH, 2); a value
\* in tenths of a kJ/mol has no third decimal to round
None == [none |-> TRUE, value |-> 0]

Some(value) == [none |-> FALSE, value |-> value]

PORE_POINTS == 500

\* np.linspace(0.3, 3.0, 500): point i (from 1) is 0.3 + (i - 1) * 2.7 / 499
PoreRange ==
    [i \in 1..PORE_POINTS |-> 3000 + Round(((i - 1) * 27000 * 10) \div 499, 10)]

\* np.argmin(np.abs(pore_range_nm - target)), as an index from 1: the first
\* index of the least distance
ArgminDistance(pore_range_nm, target) ==
    CHOOSE i \in DOMAIN pore_range_nm :
        \A j \in DOMAIN pore_range_nm :
            LET di == Abs(pore_range_nm[i] - target)
                dj == Abs(pore_range_nm[j] - target)
            IN  di < dj \/ (di = dj /\ i <= j)

\* passable_indices[0], or 0 when the list is empty
FirstPassable(profile) ==
    LET passable_indices == {i \in DOMAIN profile : ~profile[i].none}
    IN  IF passable_indices = {} THEN 0
        ELSE CHOOSE i \in passable_indices :
                 \A j \in passable_indices : i <= j

\* compute_dehydration_profile: what it stores for one species
SpeciesProfile(key, pore_range_nm, epsilon_bulk) ==
    LET ion == SPECIES[key]
        profile ==
            [i \in DOMAIN pore_range_nm |->
                LET dH == dehydration_enthalpy(pore_range_nm[i], ion,
                                               epsilon_bulk)
                IN  IF dH.infinite THEN None ELSE Some(dH.value)]
        first == FirstPassable(profile)
        idx_07 == ArgminDistance(pore_range_nm, 7000)
        barrier_at_critical == profile[idx_07]
        bare_diameter == 20 * ion.bare_radius_nm
        status ==
            IF bare_diameter < 7000
               /\ (barrier_at_critical.none \/ barrier_at_critical.value > 2000)
            THEN "BLOCKED (steric)"
            ELSE IF bare_diameter < 7000 /\ ~barrier_at_critical.none
                    /\ barrier_at_critical.value < 500
            THEN "PASSES (low barrier)"
            ELSE IF bare_diameter < 7000 /\ ~barrier_at_critical.none
            THEN "PARTIALLY BLOCKED (energetic)"
            ELSE "BLOCKED (steric)"
    IN  [name |-> ion.name,
         barrier_at_07nm_kJ_mol |-> barrier_at_critical,
         \* round(min_pore, 3) in pm, or -1 for "NEVER"
         min_passable_pore_nm |->
             IF first = 0 THEN -1 ELSE Round(pore_range_nm[first], 10),
         status_at_07nm |->
             IF key \in {"Li+", "Na+"} /\ bare_diameter < 7000
             THEN "PASSES" ELSE status,
         enthalpy_profile_kJ_mol |-> profile]

compute_dehydration_profile(pore_range_nm, epsilon_bulk) ==
    [pore_diameters_nm |-> pore_range_nm,
     species |-> [key \in SpeciesKeys |->
                     SpeciesProfile(key, pore_range_nm, epsilon_bulk)]]

\* compute_selectivity: the selectivity of one barrier against li_barrier.
\* RT = 2.494 kJ/mol; text ">10^" carries the exponent
\* int(delta_barrier / (2.303 * RT)), the texts "exp" and "ratio" stand for
\* the formatted np.exp(delta_barrier / RT) and carry delta_barrier
SelectivityOf(barrier, li_barrier) ==
    IF barrier.none
    THEN [barrier_kJ_mol |-> None, selectivity |-> "INFINITE", n |-> 0,
          status |-> "BLOCKED"]
    ELSE LET delta_barrier == barrier.value - li_barrier
         IN  IF delta_barrier > 1000
             THEN [barrier_kJ_mol |-> barrier, selectivity |-> ">10^",
                   n |-> (delta_barrier * 100000) \div 574437,
                   status |-> "BLOCKED"]
             ELSE IF delta_barrier > 200
             THEN [barrier_kJ_mol |-> barrier, selectivity |-> "exp",
                   n |-> delta_barrier, status |-> "BLOCKED"]
             ELSE IF delta_barrier > 50
             THEN [barrier_kJ_mol |-> barrier, selectivity |-> "ratio",
                   n |-> delta_barrier, status |-> "PARTIAL"]
             ELSE [barrier_kJ_mol |-> barrier, selectivity |-> "1:1 (passes)",
                   n |-> 0, status |-> "PASS"]

compute_selectivity(results, target_pore_nm) ==
    LET idx == ArgminDistance(results.pore_diameters_nm, target_pore_nm)
        li_entry == results.species["Li+"].enthalpy_profile_kJ_mol[idx]
        li_barrier == IF li_entry.none THEN 0 ELSE li_entry.value
    IN  [target_pore_nm |-> target_pore_nm,
         Li_barrier_kJ_mol |-> li_barrier,
         species_selectivity |->
             [key \in SpeciesKeys |->
                 SelectivityOf(results.species[key].enthalpy_profile_kJ_mol[idx],
                               li_barrier)]]

\* the arguments of the direct calls
PoreDiameters ==
    {3000, 5500, 6000, 6500, 6790, 6810, 7004, 7190, 7210, 7630, 7650, 9500, 30000}

EpsilonPairs ==
    {[bulk |-> 3000, vacuum |-> 200], [bulk |-> 7840, vacuum |-> 100],
     [bulk |-> 300, vacuum |-> 300], [bulk |-> 306, vacuum |-> 103],
     [bulk |-> 2520, vacuum |-> 110]}

TransitionWidths == {500, 1000}

CallDiameters ==
    {-50000, 0, 3000, 6500, 6990, 7000, 7004, 7500, 20000, 32000, 32001,
     57000, 57001, 1000000}

-----------------------------------------------------------------------------
(* born_solvation_quantum_sieve.py : main *)

InitSieve ==
    /\ script = "sieve"
    /\ console = {}
    /\ written = {}
    /\ VerifyIdle
    /\ CycleIdle
    /\ FiguresIdle
    /\ spc = "start"
    /\ born_call = <<>>
    /\ enthalpy_call = <<>>
    /\ dielectric_calls = <<>>
    /\ sieve_results = <<>>
    /\ selectivity = <<>>
    /\ profile_json = <<>>
    /\ report_txt = {}

\* a call of born_solvation_energy by a program that imports the module
BornSolvationCall ==
    /\ script = "sieve"
    /\ spc = "start"
    /\ enthalpy_call = <<>> /\ dielectric_calls = <<>>
    /\ \E z \in Charges, r_eff_m \in Radii, epsilon_r \in Dielectrics :
          born_call' = <<[z |-> z, r_eff_m |-> r_eff_m, epsilon_r |-> epsilon_r,
                          outcome |-> born_solvation_energy(z, r_eff_m, epsilon_r)]>>
    /\ UNCHANGED <<script, console, written, vvars, cvars, fvars, spc, enthalpy_call,
                   dielectric_calls, sieve_results, selectivity, profile_json,
                   report_txt>>

\* a call of dehydration_enthalpy by a program that imports the module
DehydrationEnthalpyCall ==
    /\ script = "sieve"
    /\ spc = "start"
    /\ born_call = <<>> /\ enthalpy_call = <<>> /\ dielectric_calls = <<>>
    /\ \E pore_diameter_nm \in PoreDiameters, key \in SpeciesKeys :
          enthalpy_call' =
              <<[pore_diameter_nm |-> pore_diameter_nm, ion |-> SPECIES[key],
                 epsilon_bulk |-> 3000,
                 outcome |-> dehydration_enthalpy(pore_diameter_nm,
                                                  SPECIES[key], 3000)]>>
    /\ UNCHANGED <<script, console, written, vvars, cvars, fvars, spc, born_call,
                   dielectric_calls, sieve_results, selectivity, profile_json,
                   report_txt>>

\* two calls of confined_dielectric_constant by a program that imports the
\* module, with the same parameters and two pore diameters; x is the local
\* variable after the clip, epsilon_eff the result in hundredths and
\* epsilon_eff_float the result as a float where that is determined
ConfinedDielectricCalls ==
    /\ script = "sieve"
    /\ spc = "start"
    /\ born_call = <<>> /\ enthalpy_call = <<>> /\ dielectric_calls = <<>>
    /\ \E epsilon \in EpsilonPairs, transition_width_nm \in TransitionWidths,
          d \in CallDiameters, e \in CallDiameters :
          LET Call(pore_diameter_nm) ==
                  [pore_diameter_nm |-> pore_diameter_nm,
                   epsilon_bulk |-> epsilon.bulk,
                   epsilon_vacuum |-> epsilon.vacuum,
                   d_critical_nm |-> D_CRITICAL_DEFAULT,
                   transition_width_nm |-> transition_width_nm,
                   x |-> ClippedArgument(pore_diameter_nm, D_CRITICAL_DEFAULT,
                                         transition_width_nm),
                   epsilon_eff |->
                       confined_dielectric_constant(
                           pore_diameter_nm, epsilon.bulk, epsilon.vacuum,
                           D_CRITICAL_DEFAULT, transition_width_nm),
                   epsilon_eff_float |->
                       confined_dielectric_float(
                           pore_diameter_nm, epsilon.bulk, epsilon.vacuum,
                           D_CRITICAL_DEFAULT, transition_width_nm)]
          IN  dielectric_calls' = <<Call(d), Call(e)>>
    /\ UNCHANGED <<script, console, written, vvars, cvars, fvars, spc, born_call,
                   enthalpy_call, sieve_results, selectivity, profile_json,
                   report_txt>>

SieveStep(from, to, files, prints) ==
    /\ script = "sieve"
    /\ spc = from
    /\ spc' = to
    /\ written' = written \cup files
    /\ console' = console \cup prints
    /\ UNCHANGED <<script, vvars, cvars, fvars, born_call, enthalpy_call,
                   dielectric_calls>>

\* main, steps 1 and 2: compute_dehydration_profile, compute_selectivity
\* (main runs in a process of its own, which calls nothing before it)
ComputeProfiles ==
    /\ born_call = <<>> /\ enthalpy_call = <<>> /\ dielectric_calls = <<>>
    /\ SieveStep("start", "save_profile", {}, {})
    /\ LET results == compute_dehydration_profile(PoreRange, 3000)
       IN  /\ sieve_results' = <<results>>
           /\ selectivity' = <<compute_selectivity(results, 7000)>>
    /\ UNCHANGED <<profile_json, report_txt>>

\* main, step 3: the key_results and the claim_validation of the profile file
SaveProfile ==
    /\ SieveStep("save_profile", "save_selectivity",
                 {"dehydration_enthalpy_profile.json"}, {})
    /\ profile_json' =
          <<[key_results |->
                [Li_barrier_at_07nm_kJ_mol |->
                     sieve_results[1].species["Li+"].barrier_at_07nm_kJ_mol,
                 Li_EC4_barrier_at_07nm |->
                     sieve_results[1].species["Li_EC4"].barrier_at_07nm_kJ_mol,
                 Li_H2O4_barrier_at_07nm |->
                     sieve_results[1].species["Li_H2O4"].barrier_at_07nm_kJ_mol,
                 selectivity_Li_vs_LiEC4 |-> "INFINITE (steric exclusion)",
                 selectivity_Li_vs_LiH2O4 |-> "INFINITE (steric exclusion)"],
             claim_validation |->
                [claim_12_barrier_gt_400 |-> TRUE,
                 claim_12_selectivity_gt_1000 |-> TRUE,
                 claim_13_d_crit_06_to_08 |-> TRUE]]>>
    /\ UNCHANGED <<sieve_results, selectivity, report_txt>>

SaveSelectivity ==
    /\ SieveStep("save_selectivity", "plot", {"species_selectivity.json"}, {})
    /\ UNCHANGED <<sieve_results, selectivity, profile_json, report_txt>>

\* main, step 4
generate_dehydration_plot ==
    /\ \E matplotlib_available \in BOOLEAN :
          IF matplotlib_available
          THEN SieveStep("plot", "report", {"dehydration_cliff.png"}, {})
          ELSE SieveStep("plot", "report", {},
                         {"matplotlib not available, skipping plot generation"})
    /\ UNCHANGED <<sieve_results, selectivity, profile_json, report_txt>>

\* main, step 5: the claim verification lines of the report
WriteSieveReport ==
    /\ SieveStep("report", "done", {"sieve_validation_report.txt"},
                 {"validation_complete"})
    /\ report_txt' =
          {"Li(EC)4+ at 0.7nm: INFINITE (steric) PASS",
           "Li(H2O)4+ at 0.7nm: INFINITE (steric) PASS",
           "Li+(bare) vs Li(EC)4+: INFINITE PASS",
           "Model d_crit = 0.70 nm PASS"}
    /\ UNCHANGED <<sieve_results, selectivity, profile_json>>

NextSieve ==
    \/ BornSolvationCall
    \/ DehydrationEnthalpyCall
    \/ ConfinedDielectricCalls
    \/ ComputeProfiles
    \/ SaveProfile
    \/ SaveSelectivity
    \/ generate_dehydration_plot
    \/ WriteSieveReport

SpecSieve == InitSieve /\ [][NextSieve]_vars

(* C10, as stated: a call with r_eff_m <= 0 or epsilon_r <= 0 returns exactly
   zero without raising, whatever z, and a call with r_eff_m > 0 and
   epsilon_r > 0 does not divide by zero. *)
C10_GuardPreventsDivisionByZero ==
    script = "sieve" /\ born_call # <<>> =>
        LET call == born_call[1]
        IN  /\ call.r_eff_m.n <= 0 \/ call.epsilon_r <= 0 =>
                  call.outcome = Returned(0)
            /\ call.r_eff_m.n > 0 /\ call.epsilon_r > 0 =>
                  ~call.outcome.raised

\* a positive subnormal radius whose product with 8 pi epsilon_0 is 0.0
C10_Witness ==
    /\ script = "sieve"
    /\ born_call # <<>>
    /\ born_call[1].r_eff_m = Subnormal(2000)
    /\ born_call[1].epsilon_r = 3000
    /\ born_call[1].z = 1
    /\ born_call[1].outcome = RaisedZeroDivisionError

\* the part of C10 about the guard alone
C10_GuardReturnsZero ==
    script = "sieve" /\ born_call # <<>> =>
        LET call == born_call[1]
        IN  call.r_eff_m.n <= 0 \/ call.epsilon_r <= 0 =>
                call.outcome = Returned(0)

(* C12: for every ion and every pore diameter below the diameter of the
   ion's solvated complex (pore_diameter_nm < 2 * solvated_radius_nm),
   dehydration_enthalpy returns an infinite barrier; it returns a finite
   barrier only for pores at least as wide as the solvated diameter. *)
C12_InfiniteBelowSolvatedDiameter ==
    script = "sieve" /\ enthalpy_call # <<>> =>
        LET call == enthalpy_call[1]
        IN  call.pore_diameter_nm < 20 * call.ion.solvated_radius_nm =>
                call.outcome = ReturnedInfinite

\* Li(H2O)4+ (solvated diameter 0.68 nm) and a pore of 0.60 nm: a finite
\* barrier of about 65 kJ/mol
C12_Witness ==
    /\ script = "sieve"
    /\ enthalpy_call # <<>>
    /\ enthalpy_call[1].ion = SPECIES["Li_H2O4"]
    /\ enthalpy_call[1].pore_diameter_nm = 6000
    /\ ~enthalpy_call[1].outcome.infinite
    /\ ~enthalpy_call[1].outcome.raised
    /\ enthalpy_call[1].outcome.value \in 640..670

\* what holds of the steric check: the barrier is infinite exactly for the
\* pores below 0.8 of the solvated diameter
StericCheckAtFourFifths ==
    script = "sieve" /\ enthalpy_call # <<>> =>
        LET call == enthalpy_call[1]
        IN  call.outcome.infinite <=>
                call.pore_diameter_nm < 16 * call.ion.solvated_radius_nm

(* C13: the results the script writes agree with what it computed: where
   the key results of the profile file or the report say that Li(H2O)4+ is
   sterically blocked at 0.70 nm (selectivity INFINITE), its profile entry at
   the index nearest 0.70 nm is None and compute_selectivity gave it
   selectivity INFINITE and status BLOCKED. *)
C13_WrittenResultsAgreeWithComputed ==
    script = "sieve" =>
        LET ComputedBlocked ==
                /\ sieve_results[1].species["Li_H2O4"].barrier_at_07nm_kJ_mol = None
                /\ selectivity[1].species_selectivity["Li_H2O4"].selectivity
                       = "INFINITE"
                /\ selectivity[1].species_selectivity["Li_H2O4"].status
                       = "BLOCKED"
        IN  /\ profile_json # <<>>
               /\ profile_json[1].key_results.selectivity_Li_vs_LiH2O4
                      = "INFINITE (steric exclusion)"
               => ComputedBlocked
            /\ "Li(H2O)4+ at 0.7nm: INFINITE (steric) PASS" \in report_txt
               => ComputedBlocked

\* main at its end: the report and the key results say INFINITE, the computed
\* barrier of Li(H2O)4+ at the index nearest 0.70 nm is finite (about 26.5
\* kJ/mol, the key result written next to the selectivity) and
\* compute_selectivity gave "1:1 (passes)", PASS
C13_Witness ==
    /\ script = "sieve"
    /\ spc = "done"
    /\ "Li(H2O)4+ at 0.7nm: INFINITE (steric) PASS" \in report_txt
    /\ profile_json[1].key_results.selectivity_Li_vs_LiH2O4
           = "INFINITE (steric exclusion)"
    /\ ~profile_json[1].key_results.Li_H2O4_barrier_at_07nm.none
    /\ profile_json[1].key_results.Li_H2O4_barrier_at_07nm.value \in 260..270
    /\ selectivity[1].species_selectivity["Li_H2O4"].selectivity = "1:1 (passes)"
    /\ selectivity[1].species_selectivity["Li_H2O4"].status = "PASS"

\* what main computes at the index nearest 0.70 nm
SieveOutcome ==
    script = "sieve" /\ sieve_results # <<>> =>
        /\ ArgminDistance(PoreRange, 7000) = 75
        /\ PoreRange[75] = 7004
        /\ sieve_results[1].species["Li+"].barrier_at_07nm_kJ_mol = Some(265)
        /\ sieve_results[1].species["Li+"].min_passable_pore_nm = 614
        /\ sieve_results[1].species["Li_EC4"].barrier_at_07nm_kJ_mol = None
        /\ sieve_results[1].species["Li_EC4"].min_passable_pore_nm = 722
        /\ sieve_results[1].species["Li_H2O4"].status_at_07nm
               = "PASSES (low barrier)"
        /\ sieve_results[1].species["dendrite_tip"].min_passable_pore_nm = -1
        /\ selectivity[1].species_selectivity["Li_EC4"].selectivity = "INFINITE"


(* C19: confined_dielectric_constant is a sigmoid interpolation between the
   two limits.  For epsilon_bulk >= epsilon_vacuum and a positive transition
   width the result lies in [epsilon_vacuum, epsilon_bulk], does not decrease
   with the pore diameter, is the midpoint (epsilon_vacuum + epsilon_bulk) / 2
   at pore_diameter_nm = d_critical_nm, and is the same for all diameters more
   than 50 transition widths beyond d_critical_nm on one side, where the
   argument of the exponential is clipped to [-50, 50], so that nothing
   overflows.
   SigmoidInterpolation(ulps) states it with the float results, where they
   are determined, allowed to be ulps units in the last place above
   epsilon_bulk and away from the midpoint. *)
WithinUlps(a, b, ulps) == IF ulps = 0 THEN a = b ELSE WithinOneUlp(a, b)

DefaultDielectrics(call) ==
    call.epsilon_bulk = 3000 /\ call.epsilon_vacuum = EPSILON_VACUUM_DEFAULT

CallInRange(call, ulps) ==
    LET bulk == FloatOfHundredths(call.epsilon_bulk)
        vacuum == FloatOfHundredths(call.epsilon_vacuum)
        eff == call.epsilon_eff_float
    IN  /\ call.epsilon_vacuum <= call.epsilon_eff
        /\ call.epsilon_eff <= call.epsilon_bulk
        /\ eff.exact =>
              /\ FloatLeq(vacuum, eff.value)
              /\ FloatLeq(eff.value, bulk) \/ WithinUlps(eff.value, bulk, ulps)

CallAtMidpoint(call, ulps) ==
    LET bulk == FloatOfHundredths(call.epsilon_bulk)
        vacuum == FloatOfHundredths(call.epsilon_vacuum)
    IN  call.pore_diameter_nm = call.d_critical_nm =>
            /\ call.epsilon_eff_float.exact
            /\ WithinUlps(call.epsilon_eff_float.value,
                          FloatScale(FloatAdd(vacuum, bulk), -1), ulps)

CallClipped(call) == call.x >= -500000 /\ call.x <= 500000

FarBeyond(call, side) ==
    side * (call.pore_diameter_nm - call.d_critical_nm)
        > 50 * call.transition_width_nm

CallsMonotonicAndConstant(narrow, wide) ==
    /\ narrow.pore_diameter_nm <= wide.pore_diameter_nm =>
          /\ narrow.epsilon_eff <= wide.epsilon_eff
          /\ narrow.epsilon_eff_float.exact /\ wide.epsilon_eff_float.exact =>
                FloatLeq(narrow.epsilon_eff_float.value,
                         wide.epsilon_eff_float.value)
    /\ \A side \in {-1, 1} :
          FarBeyond(narrow, side) /\ FarBeyond(wide, side) =>
              /\ narrow.x = wide.x
              /\ narrow.epsilon_eff = wide.epsilon_eff
              /\ narrow.epsilon_eff_float = wide.epsilon_eff_float

SigmoidInterpolation(ulps) ==
    dielectric_calls # <<>> =>
        LET first == dielectric_calls[1]
            second == dielectric_calls[2]
        IN  (first.epsilon_bulk >= first.epsilon_vacuum
             /\ first.transition_width_nm > 0) =>
                /\ \A call \in {first, second} :
                      LET u == IF DefaultDielectrics(call) THEN 0 ELSE ulps
                      IN  /\ CallInRange(call, u)
                          /\ CallAtMidpoint(call, u)
                          /\ CallClipped(call)
                /\ CallsMonotonicAndConstant(first, second)
                /\ CallsMonotonicAndConstant(second, first)

\* C19 as stated: the range and the midpoint hold exactly
C19_SigmoidInterpolationExact == SigmoidInterpolation(0)

\* C19 amended: for parameters other than the defaults the float result may
\* be one unit in the last place above epsilon_bulk, and one unit in the
\* last place away from the midpoint
C19_SigmoidInterpolationToOneUlp == SigmoidInterpolation(1)

\* a call at d_critical_nm and a call beyond the clip, with parameters other
\* than the defaults, whose saturated result is above epsilon_bulk
C19_Witness ==
    /\ dielectric_calls # <<>>
    /\ dielectric_calls[1].pore_diameter_nm = dielectric_calls[1].d_critical_nm
    /\ FarBeyond(dielectric_calls[2], 1)
    /\ dielectric_calls[2].x = 500000
    /\ dielectric_calls[1].epsilon_bulk > dielectric_calls[1].epsilon_vacuum
    /\ ~DefaultDielectrics(dielectric_calls[1])
    /\ dielectric_calls[1].epsilon_eff_float.exact
    /\ dielectric_calls[2].epsilon_eff_float.exact
    /\ ~FloatLeq(dielectric_calls[2].epsilon_eff_float.value,
                 FloatOfHundredths(dielectric_calls[2].epsilon_bulk))

-----------------------------------------------------------------------------
(* The two scripts that plot *)

InitOutputs == InitCycle \/ InitSieve

NextOutputs == NextCycle \/ NextSieve

SpecOutputs == InitOutputs /\ [][NextOutputs]_vars

CycleLifeFiles == {"cycle_life_results.json", "genesis_cycle_life_physics.csv"}

SieveFiles == {"dehydration_enthalpy_profile.json", "species_selectivity.json"}

(* C4: in both mains the result files (JSON, CSV) are written before the plot
   step starts; when matplotlib cannot be imported a warning is printed, no
   plot is written and the run goes on to its normal end, which in the sieve
   script includes writing the validation report. *)
C4_MissingMatplotlibSkipsPlotOnly ==
    /\ script = "cycle_life" /\ caller = "main" =>
          /\ cpc \in {"seed", "call", "loop", "after_loop", "save_results",
                      "save_csv", "plot", "done"}
          /\ cpc \in {"plot", "done"} => CycleLifeFiles \subseteq written
          /\ "matplotlib not available" \in console =>
                /\ cpc = "done"
                /\ "cycle_life_physics.png" \notin written
    /\ script = "sieve" =>
          /\ spc \in {"plot", "report", "done"} => SieveFiles \subseteq written
          /\ "matplotlib not available, skipping plot generation" \in console =>
                /\ spc \in {"report", "done"}
                /\ "dehydration_cliff.png" \notin written
          /\ spc = "report" => ENABLED WriteSieveReport
          /\ spc = "done" => "sieve_validation_report.txt" \in written

C4_Witness ==
    /\ script = "sieve"
    /\ spc = "done"
    /\ "matplotlib not available, skipping plot generation" \in console
    /\ "dehydration_cliff.png" \notin written
    /\ SieveFiles \subseteq written
    /\ "sieve_validation_report.txt" \in written

-----------------------------------------------------------------------------
(* generate_all_figures.py.  The module imports matplotlib at its top, then  *)
(* main generates six figures one after the other.  Figure 3 reads          *)
(* validation_data/zero_pressure_cycling.csv and figure 5 reads             *)
(* validation_data/dendrite_suppression_results.json; an exception is       *)
(* caught nowhere, so the first one ends the process.  A row of the CSV is  *)
(* a sequence of cells, a cell is its text; retention is in tenths.         *)

MaxRows == 2

FigureFiles ==
    <<"pressure_failure_curve_real.png", "lithium_creep_rate.png",
      "cycle_life_validation.png", "conductivity_arrhenius.png",
      "dendrite_suppression_comparison.png",
      "industry_investment_landscape.png">>

GeneratingMarkers ==
    <<"generating_figure_1", "generating_figure_2", "generating_figure_3",
      "generating_figure_4", "generating_figure_5", "generating_figure_6">>

SavedMarkers ==
    <<"saved_figure_1", "saved_figure_2", "saved_figure_3", "saved_figure_4",
      "saved_figure_5", "saved_figure_6">>

\* the texts int() accepts, and the texts float() accepts
IntLiterals == {"0", "1000"}

FloatLiterals == IntLiterals \cup {"150.0", "143.2", "100.0", "95.5"}

IntOf(cell) == IF cell = "0" THEN 0 ELSE 1000

FloatOf(cell) ==
    CASE cell = "0" -> 0
      [] cell = "1000" -> 10000
      [] cell = "150.0" -> 1500
      [] cell = "143.2" -> 1432
      [] cell = "100.0" -> 1000
      [] cell = "95.5" -> 955

\* the first cells for which row[0].startswith('#') holds
CommentCells == {"# comment"}

CsvRows ==
    {<<>>, <<"# comment">>, <<"cycle", "capacity_mAh", "retention_pct">>,
     <<"0", "150.0", "100.0">>, <<"1000", "143.2", "95.5">>,
     <<"1000", "143.2">>, <<"n/a", "143.2", "95.5">>,
     <<"1000", "143.2", "n/a">>}

MissingFile == [exists |-> FALSE, rows |-> <<>>]

CsvFile(rows) == [exists |-> TRUE, rows |-> rows]

CyclingCsvFiles ==
    {MissingFile} \cup {CsvFile(rows) : rows \in SeqsUpTo(CsvRows, MaxRows)}

\* dendrite_suppression_results.json: missing, not JSON, or a JSON object
\* with some of the keys the figure reads
DendriteKeys == {"baseline_case", "genesis_case", "improvement_metrics"}

MissingJson == [exists |-> FALSE, valid |-> FALSE, keys |-> {}]

DendriteJsonFiles ==
    {MissingJson, [exists |-> TRUE, valid |-> FALSE, keys |-> {}]}
    \cup {[exists |-> TRUE, valid |-> TRUE, keys |-> keys] :
             keys \in SUBSET DendriteKeys}

Raised(exception) == [raised |-> exception, cycles |-> <<>>, retention |-> <<>>]

RECURSIVE ReadRows(_, _, _)
\* the loop over csv.reader(f)
ReadRows(rows, cycles, retention) ==
    IF rows = <<>>
    THEN [raised |-> "", cycles |-> cycles, retention |-> retention]
    ELSE LET row == Head(rows)
         IN  IF row = <<>> \/ row[1] \in CommentCells \/ row[1] = "cycle"
             THEN ReadRows(Tail(rows), cycles, retention)
             ELSE IF row[1] \notin IntLiterals THEN Raised("ValueError")
             ELSE IF Len(row) < 3 THEN Raised("IndexError")
             ELSE IF row[3] \notin FloatLiterals THEN Raised("ValueError")
             ELSE ReadRows(Tail(rows), Append(cycles, IntOf(row[1])),
                           Append(retention, FloatOf(row[3])))

\* a missing data file read as an empty one
ReadCyclingCsvOrEmpty(file) == ReadRows(file.rows, <<>>, <<>>)

\* with open(data_path, 'r') as f: ... in generate_cycle_life_plot
ReadCyclingCsv(file) ==
    IF ~file.exists THEN Raised("FileNotFoundError")
    ELSE ReadRows(file.rows, <<>>, <<>>)

\* open, json.load and the keys generate_dendrite_comparison_plot reads, in
\* the order it reads them: "" or the exception
ReadDendriteJson(file) ==
    IF ~file.exists THEN "FileNotFoundError"
    ELSE IF ~file.valid THEN "JSONDecodeError"
    ELSE IF DendriteKeys \subseteq file.keys THEN ""
    ELSE "KeyError"

InitFigures ==
    /\ script = "figures"
    /\ console = {}
    /\ written = {}
    /\ VerifyIdle
    /\ CycleIdle
    /\ SieveIdle
    /\ fpc = "import"
    /\ matplotlib_installed \in BOOLEAN
    /\ cycling_csv \in CyclingCsvFiles
    /\ dendrite_json \in DendriteJsonFiles
    /\ figures = <<>>
    /\ attempts = [n \in 1..6 |-> 0]
    /\ plotted = <<>>
    /\ traceback = ""

\* the top of the module: import matplotlib.pyplot, os.makedirs(OUTPUT_DIR)
ImportFigureModules ==
    /\ script = "figures"
    /\ fpc = "import"
    /\ IF matplotlib_installed
       THEN fpc' = "main" /\ traceback' = traceback
       ELSE fpc' = "crashed" /\ traceback' = "ModuleNotFoundError"
    /\ UNCHANGED <<script, console, written, vvars, cvars, svars,
                   matplotlib_installed, cycling_csv, dendrite_json, figures,
                   attempts, plotted>>

\* main, up to figures = []
FiguresBanner ==
    /\ script = "figures"
    /\ fpc = "main"
    /\ fpc' = "generating"
    /\ console' = console \cup {"figures_banner"}
    /\ UNCHANGED <<script, written, vvars, cvars, svars, matplotlib_installed,
                   cycling_csv, dendrite_json, figures, attempts, plotted,
                   traceback>>

\* figures.append(generate_...()) for figure n: the function prints, reads
\* its data if it has any, saves the figure and returns its path, or raises
GenerateFigure(n, raised) ==
    /\ script = "figures"
    /\ fpc = "generating"
    /\ Len(figures) = n - 1
    /\ attempts' = [attempts EXCEPT ![n] = @ + 1]
    /\ IF raised = ""
       THEN /\ written' = written \cup {FigureFiles[n]}
            /\ console' = console \cup {GeneratingMarkers[n], SavedMarkers[n]}
            /\ figures' = Append(figures, FigureFiles[n])
            /\ UNCHANGED <<fpc, traceback>>
       ELSE /\ console' = console \cup {GeneratingMarkers[n]}
            /\ fpc' = "crashed"
            /\ traceback' = raised
            /\ UNCHANGED <<written, figures>>
    /\ UNCHANGED <<script, vvars, cvars, svars, matplotlib_installed,
                   cycling_csv, dendrite_json>>

generate_pressure_failure_curve == GenerateFigure(1, "") /\ UNCHANGED plotted

generate_creep_rate_curve == GenerateFigure(2, "") /\ UNCHANGED plotted

generate_cycle_life_plot ==
    LET data == ReadCyclingCsv(cycling_csv)
    IN  /\ GenerateFigure(3, data.raised)
        /\ plotted' = IF data.raised = ""
                      THEN <<[cycles |-> data.cycles,
                              retention |-> data.retention]>>
                      ELSE plotted

generate_conductivity_arrhenius_plot ==
    GenerateFigure(4, "") /\ UNCHANGED plotted

generate_dendrite_comparison_plot ==
    GenerateFigure(5, ReadDendriteJson(dendrite_json)) /\ UNCHANGED plotted

generate_investment_landscape == GenerateFigure(6, "") /\ UNCHANGED plotted

\* main, after the six calls: the summary, and the return
FiguresSummary ==
    /\ script = "figures"
    /\ fpc = "generating"
    /\ Len(figures) = 6
    /\ fpc' = "done"
    /\ console' = console \cup {"figures_summary"}
    /\ UNCHANGED <<script, written, vvars, cvars, svars, matplotlib_installed,
                   cycling_csv, dendrite_json, figures, attempts, plotted,
                   traceback>>

NextFigures ==
    \/ ImportFigureModules
    \/ FiguresBanner
    \/ generate_pressure_failure_curve
    \/ generate_creep_rate_curve
    \/ generate_cycle_life_plot
    \/ generate_conductivity_arrhenius_plot
    \/ generate_dendrite_comparison_plot
    \/ generate_investment_landscape
    \/ FiguresSummary

SpecFigures == InitFigures /\ [][NextFigures]_vars

(* C11: main generates the six figures strictly in the order
   pressure-failure, creep-rate, cycle-life, conductivity,
   dendrite-comparison, investment-landscape.  Nothing is retried and no
   failure is recovered from: when the cycling CSV is missing, the read
   failure in figure 3 ends the run after figures 1 and 2 have been saved,
   figures 4, 5 and 6 are never generated and the success summary is never
   printed. *)
FigurePrefix(n) == SubSeq(FigureFiles, 1, n)

FiguresInOrder ==
    /\ figures = FigurePrefix(Len(figures))
    /\ written = {FigureFiles[n] : n \in 1..Len(figures)}
    /\ \A n \in 1..6 :
          /\ attempts[n] <= 1
          /\ SavedMarkers[n] \in console <=> n <= Len(figures)
          /\ GeneratingMarkers[n] \in console <=> attempts[n] = 1
          /\ attempts[n] = 1 =>
                \/ n <= Len(figures)
                \/ n = Len(figures) + 1 /\ fpc = "crashed"
    /\ "figures_summary" \in console <=> fpc = "done"
    /\ fpc = "done" => Len(figures) = 6 /\ traceback = ""

MissingCsvAbortsAtFigureThree ==
    ~cycling_csv.exists =>
        /\ Len(figures) <= 2
        /\ \A n \in 4..6 : attempts[n] = 0
        /\ \A n \in 3..6 : FigureFiles[n] \notin written
        /\ "figures_summary" \notin console
        /\ fpc # "done"
        /\ attempts[3] = 1 =>
              /\ fpc = "crashed"
              /\ traceback = "FileNotFoundError"
              /\ figures = FigurePrefix(2)
              /\ {FigureFiles[1], FigureFiles[2]} \subseteq written

\* a step generates the next figure of the order, or none; a crashed
\* process takes no step
OneFigureAtATime ==
    /\ fpc # "crashed"
    /\ \/ figures' = figures
       \/ figures' = Append(figures, FigureFiles[Len(figures) + 1])
    /\ \A n \in 1..6 :
          attempts'[n] # attempts[n] =>
              /\ attempts'[n] = attempts[n] + 1
              /\ n = Len(figures) + 1

C11_FiguresInOrderNoRecovery ==
    /\ [](script = "figures" => FiguresInOrder /\ MissingCsvAbortsAtFigureThree)
    /\ [][script = "figures" => OneFigureAtATime]_vars

\* the run has ended in figure 3 with the CSV missing
C11_Witness ==
    /\ script = "figures"
    /\ ~cycling_csv.exists
    /\ fpc = "crashed"
    /\ attempts[3] = 1
    /\ figures = FigurePrefix(2)

====
